---------------------------- MODULE Spec2Model ----------------------------
(***************************************************************************)
(* A model of the Arkham Horror 3e companion server: the game state        *)
(* (src/src/companion/game_state.py), the deck family (decks.py), the      *)
(* command handlers (message_handler.py) and the history engine            *)
(* (AllHistories / PlayerHistories, imported by game_state.py from         *)
(* companion.decks but absent from the source tree, modelled from section  *)
(* 4.5 of the specification).                                              *)
(***************************************************************************)
EXTENDS Integers, Sequences, FiniteSets, TLC

VARIABLES
    game,               \* MessageHandler.game_states: the GameState (a record)
    connected_clients,  \* MessageHandler.connected_clients
    players,            \* MessageHandler.players: seated connection -> name
    player_colours,     \* MessageHandler.player_colours
    has_game,           \* MessageHandler.game_states is not None
    game_logs,          \* MessageHandler.game_logs, the newest entry first
    task,               \* the handler task of each connection: where it is
                        \* suspended and what it holds
    fuel,               \* game-state writes still allowed (bounds the run)
    last                \* the last command that changed the game, the piles
                        \* before it and the command before it (observation only)

vars == <<game, connected_clients, players, player_colours, has_game, game_logs,
          task, fuel, last>>

-----------------------------------------------------------------------------
(* Bounds of the model.                                                    *)

\* connections the server can hold
NumConns == 3
\* connections that are open in the two-player games
TwoConns == 2
\* game-state writes in one run
MaxOps == 3
\* piles up to this size are shuffled into every permutation
MaxPermute == 3
\* game-state writes in one run of the event-card game
DeepOps == 4
\* names and colours a connection can ask for
NumNames == 2
NumColours == 2
\* commands and connection events in one run of the roster
SessionOps == 6

-----------------------------------------------------------------------------
(* util_classes.py: the enumerations, restricted to the members the        *)
(* modelled scenarios use.                                                 *)

EVENT_DECK == "Event Deck"
EVENT_DISCARD == "Event Discard"
HEADLINE == "Headline"
CODEX == "Codex"
ARCHIVE == "Archive"
TERROR == "Terror"
RUMOR == "Rumor"
ACTION_REQUIRED == "Action Required"

DeckLabel ==
    {EVENT_DECK, EVENT_DISCARD, HEADLINE, CODEX, ARCHIVE, TERROR, RUMOR,
     ACTION_REQUIRED}

EASTTOWN == "Easttown"
NORTHSIDE == "Northside"
RIVERTOWN == "Rivertown"
INNSMOUTH_SHORE == "Innsmouth Shore"
THRESHOLDS == "Thresholds"
THE_UNDERWORLD == "The Underworld"

Neighbourhood ==
    {EASTTOWN, NORTHSIDE, RIVERTOWN, INNSMOUTH_SHORE, THRESHOLDS, THE_UNDERWORLD}

Label == DeckLabel \cup Neighbourhood

ECHOES_OF_THE_DEEP == "Echoes of the Deep"
TYRANTS_OF_RUIN == "Tyrants of Ruin"
THE_KEY_AND_THE_GATE == "The Key and the Gate"

Scenarios == {ECHOES_OF_THE_DEEP, TYRANTS_OF_RUIN, THE_KEY_AND_THE_GATE}

\* Expansions (an int enum used as a bit mask)
BASE == 0
DEAD_OF_NIGHT == 1
UNDER_DARK_WAVES == 2
SECRETS_OF_THE_ORDER == 4

Expansions == <<BASE, DEAD_OF_NIGHT, UNDER_DARK_WAVES, SECRETS_OF_THE_ORDER>>

\* expansions & expansion > 0, for a mask below 8 and a single bit
HasBit(mask, bit) == bit > 0 /\ (mask \div bit) % 2 = 1

-----------------------------------------------------------------------------
(* mappings.py, restricted to the modelled scenarios, neighbourhoods and   *)
(* codex numbers.                                                          *)

HEADLINE_RUMORS(expansion) ==
    CASE expansion = BASE -> {29, 30, 31, 32}
      [] expansion = DEAD_OF_NIGHT -> {38, 39}
      [] expansion = UNDER_DARK_WAVES -> {43}
      [] OTHER -> {}

\* the codex numbers of a scenario that the model keeps
REQUIRED_CODEX(scenario) ==
    CASE scenario = ECHOES_OF_THE_DEEP -> <<2, 32>>
      [] scenario = TYRANTS_OF_RUIN -> <<68>>
      [] scenario = THE_KEY_AND_THE_GATE -> <<164>>

HasDefaultTerror(scenario) == scenario = TYRANTS_OF_RUIN

DEFAULT_TERROR_NEIGHBOURHOOD(scenario) == INNSMOUTH_SHORE

SCENARIO_TERROR_MAP(scenario) ==
    IF scenario = TYRANTS_OF_RUIN THEN "Feeding Frenzy" ELSE "None"

CODEX_ATTACHABLE == {32, 33, 34, 35, 55, 56}
CODEX_ENCOUNTERS == {13, 14, 15, 16, 17, 147, 148, 149, 161, 162, 163, 164, 168}
CODEX_SHUFFLE_ENCOUNTERS == {13, 14, 15, 16, 17}
CODEX_TOP_ENCOUNTERS == {161, 162, 163, 164, 168}

InCodexNeighbourhoods(number) == number \in {32, 164}

CODEX_NEIGHBOURHOODS(number) ==
    CASE number = 32 -> RIVERTOWN
      [] number = 164 -> RIVERTOWN

\* REQUIRED_NEIGHBOURHOODS[scenario]["start"], two neighbourhoods of each
RequiredStart(scenario) ==
    CASE scenario = ECHOES_OF_THE_DEEP -> <<NORTHSIDE, RIVERTOWN>>
      [] scenario = TYRANTS_OF_RUIN -> <<NORTHSIDE, INNSMOUTH_SHORE>>
      [] scenario = THE_KEY_AND_THE_GATE -> <<EASTTOWN, RIVERTOWN>>

\* REQUIRED_NEIGHBOURHOODS[scenario].get("later", [])
RequiredLater(scenario) ==
    IF scenario = THE_KEY_AND_THE_GATE THEN <<THRESHOLDS, THE_UNDERWORLD>> ELSE <<>>

-----------------------------------------------------------------------------
(* Sequences.                                                              *)

Range(s) == {s[i] : i \in 1..Len(s)}

Reverse(s) == [i \in 1..Len(s) |-> s[Len(s) + 1 - i]]

RECURSIVE Concat(_)
Concat(ss) == IF ss = <<>> THEN <<>> ELSE Head(ss) \o Concat(Tail(ss))

RECURSIVE SelectSeqBy(_, _)
\* the elements of s whose neighbourhood is in nbs, in order
SelectSeqBy(s, nbs) ==
    IF s = <<>> THEN <<>>
    ELSE IF Head(s).neighbourhood \in nbs
         THEN <<Head(s)>> \o SelectSeqBy(Tail(s), nbs)
         ELSE SelectSeqBy(Tail(s), nbs)

\* the permutations of 1..n
PermsOf(n) == {f \in [1..n -> 1..n] : \A a, b \in 1..n : a # b => f[a] # f[b]}

\* the outcomes of a shuffle of n cards that the model follows: every
\* permutation of a small pile, the identity and the reversal of a large one
ShuffleOutcomes(n) ==
    IF n <= MaxPermute THEN PermsOf(n)
    ELSE {[i \in 1..n |-> i], [i \in 1..n |-> n + 1 - i]}

Permute(s, pi) == [i \in 1..Len(s) |-> s[pi[i]]]


-----------------------------------------------------------------------------
(* util_classes.py: cards.  Every card is a record of the same shape; the  *)
(* class of a card is its kind, and the class flags a codex card gets from *)
(* the mappings at creation (can_attach, is_encounter) are read off its    *)
(* number.                                                                 *)

NoNeighbourhood == "none"

\* Card(face, back): a terror card
Card(n) ==
    [kind |-> "card", id |-> n, neighbourhood |-> NoNeighbourhood,
     is_flipped |-> FALSE, counters |-> -1]

\* HeadlineCard(face, back, is_rumor, counters)
HeadlineCard(n, is_rumor) ==
    [kind |-> "headline", id |-> n, neighbourhood |-> NoNeighbourhood,
     is_flipped |-> FALSE, counters |-> IF is_rumor THEN 0 ELSE -1]

\* NeighbourhoodCard(face, back, neighbourhood, is_event)
NeighbourhoodCard(n, nb, is_event) ==
    [kind |-> IF is_event THEN "event" ELSE "encounter", id |-> n,
     neighbourhood |-> nb, is_flipped |-> FALSE, counters |-> -1]

\* CodexCard(..., is_flipped=False, counters=0)
CodexCard(number) ==
    [kind |-> "codex", id |-> number, neighbourhood |-> NoNeighbourhood,
     is_flipped |-> FALSE, counters |-> 0]

\* CodexNeighbourhoodCard.__init__: is_flipped=False, counters=0, is_event=False
CodexNeighbourhoodCard(number, nb) ==
    [kind |-> "codex_neighbourhood", id |-> number, neighbourhood |-> nb,
     is_flipped |-> FALSE, counters |-> 0]

is_event(card) == card.kind = "event"
is_rumor(card) == card.kind = "headline" /\ card.counters >= 0
can_attach(card) == card.id \in CODEX_ATTACHABLE
is_encounter(card) == card.id \in CODEX_ENCOUNTERS

-----------------------------------------------------------------------------
(* decks.py: the deck family.  A DeckBase is a sequence, bottom first and  *)
(* top last; a NeighbourhoodDeck adds attached_terror and attached_codex   *)
(* (a sequence of at most one card: None is the empty one); an ArchiveDeck *)
(* and the ActionRequiredDeck are functions from keys to cards.            *)

\* DeckBase.draw: the card and the rest; EmptyDeckError is left to the caller
DrawCard(deck, from_top) == IF from_top THEN deck[Len(deck)] ELSE deck[1]
DrawRest(deck, from_top) ==
    IF from_top THEN SubSeq(deck, 1, Len(deck) - 1) ELSE SubSeq(deck, 2, Len(deck))

\* DeckBase.bottom: self.insert(0, card)
bottom(deck, card) == <<card>> \o deck

\* DeckBase.top: self.append(card)
top(deck, card) == Append(deck, card)

\* DeckBase.shuffle_into_top_three, for a deck of two cards or more:
\* top_3 = [self.pop(), self.pop(), card]; secure_shuffle(top_3); self.extend(top_3)
shuffle_into_top_three(deck, card, pi) ==
    SubSeq(deck, 1, Len(deck) - 2)
        \o Permute(<<deck[Len(deck)], deck[Len(deck) - 1], card>>, pi)

\* a shuffle_discard that shuffles the discard pile and leaves the deck as
\* it is
shuffle_discard_apart(deck, discard_pile, pi) == deck

\* EventDeck.shuffle_discard: discard_pile.shuffle(); self[:] = discard_pile + self
shuffle_discard(deck, discard_pile, pi) == Permute(discard_pile, pi) \o deck

\* NeighbourhoodDeck.__init__
NeighbourhoodDeck(cards) ==
    [present |-> TRUE, cards |-> cards, attached_terror |-> <<>>,
     attached_codex |-> <<>>]

\* the value of a neighbourhood label that holds no deck (None)
NoDeck ==
    [present |-> FALSE, cards |-> <<>>, attached_terror |-> <<>>,
     attached_codex |-> <<>>]

\* ArchiveDeck.add_card: self[card.number] = card
add_card(archive, card) == (card.id :> card) @@ archive

\* ArchiveDeck.get_card: self.pop(codex_number), the rest
RemoveKey(f, k) == [x \in DOMAIN f \ {k} |-> f[x]]

EmptyArchive == [x \in {} |-> CodexCard(0)]

-----------------------------------------------------------------------------
(* The card lists of the catalog (companion.cards), cut down to a few      *)
(* cards of each kind.  A card is named by a number within its list.       *)

\* the headline deck keeps this many cards
HeadlineKeep == 13

\* HEADLINE_CARDS[expansion]: the numbers of the headline cards
HEADLINE_CARDS(expansion) ==
    CASE expansion = BASE -> <<19, 20, 21, 22, 23, 24, 25, 26, 27, 28, 29, 30, 31, 32>>
      [] expansion = UNDER_DARK_WAVES -> <<43>>
      [] expansion = SECRETS_OF_THE_ORDER -> <<44>>
      [] OTHER -> <<>>

\* NEIGHBOURHOOD_CARDS[neighbourhood][expansion], the empty list where the
\* neighbourhood has no entry for the expansion
NEIGHBOURHOOD_CARDS(nb, expansion) ==
    CASE nb \in {EASTTOWN, NORTHSIDE, RIVERTOWN} /\ expansion = BASE -> <<1, 2>>
      [] nb = INNSMOUTH_SHORE /\ expansion = UNDER_DARK_WAVES -> <<21, 22>>
      [] nb = THRESHOLDS /\ expansion = SECRETS_OF_THE_ORDER -> <<41>>
      [] nb = THE_UNDERWORLD /\ expansion = SECRETS_OF_THE_ORDER -> <<41, 42>>
      [] OTHER -> <<>>

\* EVENT_CARDS[scenario]: the neighbourhood on the back of each event card
EVENT_CARDS(scenario) ==
    CASE scenario = ECHOES_OF_THE_DEEP -> <<NORTHSIDE, RIVERTOWN>>
      [] scenario = TYRANTS_OF_RUIN -> <<NORTHSIDE, INNSMOUTH_SHORE>>
      [] scenario = THE_KEY_AND_THE_GATE ->
            <<EASTTOWN, RIVERTOWN, THRESHOLDS, THE_UNDERWORLD, THE_UNDERWORLD,
              THE_UNDERWORLD, THE_UNDERWORLD>>

\* TERROR_CARDS[terror]["face"]
TERROR_CARDS(terror) == IF terror = "Feeding Frenzy" THEN <<1, 2>> ELSE <<>>

-----------------------------------------------------------------------------
(* deck_factory.py.  Every factory shuffle of one game takes the same one  *)
(* of two outcomes: the list as built, or reversed.                        *)

FactoryShuffle(deck, rev) == IF rev THEN Reverse(deck) ELSE deck

\* the expansions the settings enable, in the order of the enum
EnabledExpansions(expansions) ==
    SelectSeq(Expansions, LAMBDA e : e = 0 \/ HasBit(expansions, e))

\* a terror deck that lost its last card
create_terror_deck_short(scenario, rev) ==
    LET faces == TERROR_CARDS(SCENARIO_TERROR_MAP(scenario))
        deck == [i \in 1..Len(faces) |-> Card(faces[i])]
    IN  IF deck = <<>> THEN deck ELSE SubSeq(deck, 1, Len(deck) - 1)

create_terror_deck(scenario, rev) ==
    LET faces == TERROR_CARDS(SCENARIO_TERROR_MAP(scenario))
    IN  FactoryShuffle([i \in 1..Len(faces) |-> Card(faces[i])], rev)

create_headline_deck(expansions, rev) ==
    LET en == EnabledExpansions(expansions)
        deck == Concat([k \in 1..Len(en) |->
                    [i \in 1..Len(HEADLINE_CARDS(en[k])) |->
                        HeadlineCard(HEADLINE_CARDS(en[k])[i],
                                     HEADLINE_CARDS(en[k])[i] \in HEADLINE_RUMORS(en[k]))]])
        all_cards == FactoryShuffle(deck, rev)
    IN  SubSeq(all_cards, 1, IF Len(all_cards) < HeadlineKeep THEN Len(all_cards)
                             ELSE HeadlineKeep)

create_neighbourhoods_deck(expansions, nb, rev) ==
    LET en == EnabledExpansions(expansions)
        deck == Concat([k \in 1..Len(en) |->
                    [i \in 1..Len(NEIGHBOURHOOD_CARDS(nb, en[k])) |->
                        NeighbourhoodCard(NEIGHBOURHOOD_CARDS(nb, en[k])[i], nb, FALSE)]])
    IN  NeighbourhoodDeck(FactoryShuffle(deck, rev))

create_event_deck(scenario, rev) ==
    LET backs == EVENT_CARDS(scenario)
    IN  FactoryShuffle([i \in 1..Len(backs) |-> NeighbourhoodCard(i, backs[i], TRUE)], rev)

create_archive(scenario) ==
    LET required == REQUIRED_CODEX(scenario)
    IN  [number \in Range(required) |->
            IF InCodexNeighbourhoods(number)
            THEN CodexNeighbourhoodCard(number, CODEX_NEIGHBOURHOODS(number))
            ELSE CodexCard(number)]

\* EventDeck.remove_neighbourhood: the cards that stay, and the sub-piles
remove_neighbourhood_kept(deck, nbs) == SelectSeqBy(deck, Neighbourhood \ nbs)
remove_neighbourhood_removed(deck, nbs) ==
    [nb \in {n \in nbs : SelectSeqBy(deck, {n}) # <<>>} |-> SelectSeqBy(deck, {nb})]

-----------------------------------------------------------------------------
(* The history engine: AllHistories (the per-label timelines T and their   *)
(* current indices idx) and PlayerHistories (the per-connection change     *)
(* logs C and their indices j; j[p] counts the change-sets of p that are   *)
(* applied, 0 meaning nothing to undo).  The field obs of the game record  *)
(* is observation only: the number opid of the running command, for each   *)
(* snapshot and each change-set the command that made it, for each         *)
(* connection its latest command that changed the game, whether an undo    *)
(* has stepped a label back, and the count of the headline draws that      *)
(* returned a card.                                                        *)

Conns == 1..NumConns

\* AllHistories.get: the current pile of a label
get(g, l) == g.T[l][g.idx[l]]

\* a mutation in place of the current pile of a label
put(g, l, pile) == [g EXCEPT !.T[l][g.idx[l]] = pile]

\* AllHistories.add: checkpoint the labels; a copy of the current pile is
\* appended after the current index, what lay beyond it is dropped
add(g, labels) ==
    [g EXCEPT
        !.T = [l \in Label |->
                 IF l \in labels
                 THEN Append(SubSeq(g.T[l], 1, g.idx[l]), g.T[l][g.idx[l]])
                 ELSE g.T[l]],
        !.idx = [l \in Label |-> IF l \in labels THEN g.idx[l] + 1 ELSE g.idx[l]],
        !.obs.stamp = [l \in Label |->
                 IF l \in labels
                 THEN Append(SubSeq(g.obs.stamp[l], 1, g.idx[l]), g.obs.opid)
                 ELSE g.obs.stamp[l]]]

\* AllHistories.add_new: install a pile under a label that held none
add_new(g, l, pile) == put(add(g, {l}), l, pile)

\* a record_change that drops the forward change-sets of the acting
\* connection only
record_change_own(g, p, labels) ==
    [g EXCEPT
        !.C[p] = Append(SubSeq(g.C[p], 1, g.j[p]), labels),
        !.j[p] = g.j[p] + 1,
        !.obs.cstamp[p] = Append(SubSeq(g.obs.cstamp[p], 1, g.j[p]), g.obs.opid)]

\* PlayerHistories.record_change
record_change(g, p, labels) ==
    [g EXCEPT
        !.C = [q \in Conns |->
                 IF q = p THEN Append(SubSeq(g.C[q], 1, g.j[q]), labels)
                 ELSE SubSeq(g.C[q], 1, g.j[q])],
        !.j = [q \in Conns |-> IF q = p THEN g.j[q] + 1 ELSE g.j[q]],
        !.obs.cstamp = [q \in Conns |->
                 IF q = p THEN Append(SubSeq(g.obs.cstamp[q], 1, g.j[q]), g.obs.opid)
                 ELSE SubSeq(g.obs.cstamp[q], 1, g.j[q])]]

\* a can_undo that looks at the connection's own log only
can_undo_own_log(g, p) == g.j[p] >= 1

\* PlayerHistories.can_undo: the non-interference rule
can_undo(g, p) ==
    /\ g.j[p] >= 1
    /\ \A q \in Conns \ {p} :
          g.j[q] >= 1 => g.C[p][g.j[p]] \cap g.C[q][g.j[q]] = {}

\* PlayerHistories.can_redo
can_redo(g, p) == g.j[p] < Len(g.C[p])

\* the result of an operation: the game afterwards, the exception raised
\* ("" for none) and the card returned
Result(g, err, card) == [g |-> g, err |-> err, card |-> card]

NoCard == Card(0)

\* undo_label / redo_label on each label of a set
step_labels(g, labels, d) ==
    [g EXCEPT !.idx = [l \in Label |-> IF l \in labels THEN g.idx[l] + d ELSE g.idx[l]],
              !.obs.undone = g.obs.undone \/ (d < 0 /\ labels # {})]

\* an undo that asks only whether the connection has a change-set
undo_unguarded(g, p) ==
    IF g.j[p] < 1 THEN {Result(g, "ValueError", NoCard)}
    ELSE {Result(step_labels([g EXCEPT !.j[p] = g.j[p] - 1],
                             {l \in g.C[p][g.j[p]] : g.idx[l] > 1}, -1), "", NoCard)}

\* GameState.undo: self.decks.undo(self.player_histories.undo(player)).
\* The labels of the change-set step back one snapshot; a label that has no
\* earlier snapshot fails the call after any of the other labels stepped.
undo(g, p) ==
    IF ~can_undo(g, p) THEN {Result(g, "ValueError", NoCard)}
    ELSE LET labels == g.C[p][g.j[p]]
             able == {l \in labels : g.idx[l] > 1}
             g1 == [g EXCEPT !.j[p] = g.j[p] - 1]
         IN  IF able = labels THEN {Result(step_labels(g1, labels, -1), "", NoCard)}
             ELSE {Result(step_labels(g1, done, -1), "ValueError", NoCard) :
                      done \in SUBSET able}

\* a redo that advances the change log and leaves the timelines alone
redo_log_only(g, p) ==
    IF ~can_redo(g, p) THEN {Result(g, "ValueError", NoCard)}
    ELSE {Result([g EXCEPT !.j[p] = g.j[p] + 1], "", NoCard)}

\* GameState.redo: self.decks.redo(self.player_histories.redo(player)).
\* A label whose timeline ends at the current snapshot fails the call after
\* any of the other labels stepped.
redo(g, p) ==
    IF ~can_redo(g, p) THEN {Result(g, "ValueError", NoCard)}
    ELSE LET labels == g.C[p][g.j[p] + 1]
             able == {l \in labels : g.idx[l] < Len(g.T[l])}
             g1 == [g EXCEPT !.j[p] = g.j[p] + 1]
         IN  IF able = labels THEN {Result(step_labels(g1, labels, 1), "", NoCard)}
             ELSE {Result(step_labels(g1, done, 1), "ValueError", NoCard) :
                      done \in SUBSET able}

-----------------------------------------------------------------------------
(* game_state.py: GameState.                                               *)

\* create_all_scenario_decks: the piles of every label at the start.  A
\* scenario without terror has no Terror pile; GameState.__init__ takes the
\* length of it, so the model gives it the empty pile.
StartPiles(scenario, expansions, rev) ==
    LET later == Range(RequiredLater(scenario))
        start == Range(RequiredStart(scenario))
    IN  [l \in Label |->
            CASE l = EVENT_DECK ->
                    remove_neighbourhood_kept(create_event_deck(scenario, rev), later)
              [] l = HEADLINE -> create_headline_deck(expansions, rev)
              [] l = ARCHIVE -> create_archive(scenario)
              [] l = CODEX -> EmptyArchive
              [] l = TERROR -> create_terror_deck(scenario, rev)
              [] l \in {EVENT_DISCARD, RUMOR, ACTION_REQUIRED} -> <<>>
              [] l \in start -> create_neighbourhoods_deck(expansions, l, rev)
              [] OTHER -> NoDeck]

\* GameState.__init__
GameState(scenario, expansions, rev) ==
    LET piles == StartPiles(scenario, expansions, rev)
        later == Range(RequiredLater(scenario))
    IN  [scenario |-> scenario,
         expansions |-> expansions,
         T |-> [l \in Label |-> <<piles[l]>>],
         idx |-> [l \in Label |-> 1],
         C |-> [p \in Conns |-> <<>>],
         j |-> [p \in Conns |-> 0],
         has_terror |-> Len(piles[TERROR]) = 0,
         neighbourhoods |-> RequiredStart(scenario),
         later_neighbourhoods |->
            [nb \in later |-> create_neighbourhoods_deck(expansions, nb, rev)],
         later_event_decks |->
            remove_neighbourhood_removed(create_event_deck(scenario, rev), later),
         uuid |-> 1,
         obs |-> [opid |-> 0,
                  stamp |-> [l \in Label |-> <<0>>],
                  cstamp |-> [p \in Conns |-> <<>>],
                  lastop |-> [p \in Conns |-> 0],
                  undone |-> FALSE,
                  headline_draws |-> 0]]

\* the live piles: what every label currently holds
Live(g) == [l \in Label |-> get(g, l)]

\* the start of a command of a connection (observation only)
Begin(g, sender) ==
    [g EXCEPT !.obs.opid = g.obs.opid + 1,
              !.obs.lastop[sender] = g.obs.opid + 1]

\* the piles, the timeline indices and the change-log indices of a game
Snapshot(g) == [live |-> Live(g), idx |-> g.idx, j |-> g.j]

\* GameState.draw_from_neighbourhood
draw_from_neighbourhood(g, neighbourhood, sender) ==
    LET g1 == add(g, {neighbourhood})
        deck == get(g1, neighbourhood)
        card == DrawCard(deck.cards, TRUE)
        g2 == put(g1, neighbourhood, [deck EXCEPT !.cards = DrawRest(deck.cards, TRUE)])
    IN  IF ~deck.present THEN Result(g1, "AttributeError", NoCard)
        ELSE IF Len(deck.cards) = 0 THEN Result(g1, "EmptyDeckError", NoCard)
        ELSE IF card.kind = "codex_neighbourhood"
        THEN LET g3 == add(g2, {ARCHIVE})
                 g4 == put(g3, ARCHIVE,
                           add_card(get(g3, ARCHIVE), [card EXCEPT !.is_flipped = FALSE]))
             IN  Result(record_change(g4, sender, {neighbourhood, ARCHIVE}), "",
                        [card EXCEPT !.is_flipped = FALSE])
        ELSE IF is_event(card)
        THEN LET g3 == add(g2, {ACTION_REQUIRED})
                 g4 == put(g3, ACTION_REQUIRED, (g.uuid :> card) @@ get(g3, ACTION_REQUIRED))
                 g5 == [g4 EXCEPT !.uuid = g.uuid + 1]
             IN  Result(record_change(g5, sender, {neighbourhood, ACTION_REQUIRED}), "", card)
        ELSE LET g3 == put(g2, neighbourhood,
                           [deck EXCEPT !.cards = bottom(DrawRest(deck.cards, TRUE), card)])
             IN  Result(record_change(g3, sender, {neighbourhood}), "", card)

\* DeckBase.shuffle_into_top_three on the pile of a neighbourhood, the
\* IndexError of the second pop on a pile of fewer than two cards included
nb_shuffle_into_top_three(g, nb, card, pi) ==
    LET deck == get(g, nb)
    IN  IF Len(deck.cards) >= 2
        THEN Result(put(g, nb, [deck EXCEPT !.cards = shuffle_into_top_three(deck.cards, card, pi)]),
                    "", card)
        ELSE Result(put(g, nb, [deck EXCEPT !.cards = <<>>]), "IndexError", NoCard)

\* a resolve_temporary_zone that reads the card and leaves its ticket in
\* ActionRequired
resolve_temporary_zone_kept(g, identifier, passed, sender, pi) ==
    IF identifier \notin DOMAIN get(g, ACTION_REQUIRED)
    THEN Result(g, "ValueError", NoCard)
    ELSE LET card == get(g, ACTION_REQUIRED)[identifier]
             g3 == record_change(add(g, {ACTION_REQUIRED, EVENT_DISCARD}), sender,
                                 {ACTION_REQUIRED, EVENT_DISCARD})
         IN  Result(put(g3, EVENT_DISCARD, bottom(get(g3, EVENT_DISCARD), card)), "", card)

\* GameState.resolve_temporary_zone
resolve_temporary_zone(g, identifier, passed, sender, pi) ==
    IF identifier \notin DOMAIN get(g, ACTION_REQUIRED)
    THEN Result(g, "ValueError", NoCard)
    ELSE LET g1 == add(g, {ACTION_REQUIRED})
             card == get(g1, ACTION_REQUIRED)[identifier]
             g2 == put(g1, ACTION_REQUIRED, RemoveKey(get(g1, ACTION_REQUIRED), identifier))
         IN  IF passed
             THEN LET g3 == record_change(add(g2, {EVENT_DISCARD}), sender,
                                          {ACTION_REQUIRED, EVENT_DISCARD})
                  IN  Result(put(g3, EVENT_DISCARD, bottom(get(g3, EVENT_DISCARD), card)),
                             "", card)
             ELSE LET g3 == record_change(add(g2, {card.neighbourhood}), sender,
                                          {ACTION_REQUIRED, card.neighbourhood})
                  IN  nb_shuffle_into_top_three(g3, card.neighbourhood, card, pi)

\* GameState.draw_terror_from_neighbourhood
draw_terror_from_neighbourhood(g, neighbourhood, sender) ==
    IF Len(get(g, neighbourhood).attached_terror) = 0
    THEN Result(g, "EmptyDeckError", NoCard)
    ELSE LET changes == {neighbourhood, TERROR}
             g1 == record_change(add(g, changes), sender, changes)
             deck == get(g1, neighbourhood)
             card == DrawCard(deck.attached_terror, TRUE)
             g2 == put(g1, neighbourhood,
                       [deck EXCEPT !.attached_terror = DrawRest(deck.attached_terror, TRUE)])
         IN  Result(put(g2, TERROR, bottom(get(g2, TERROR), card)), "", card)

\* GameState._draw_from_event_deck
draw_from_event_deck(g, from_top, pi) ==
    IF Len(get(g, EVENT_DECK)) > 0
    THEN Result(put(g, EVENT_DECK, DrawRest(get(g, EVENT_DECK), from_top)), "",
                DrawCard(get(g, EVENT_DECK), from_top))
    ELSE LET g1 == add(g, {EVENT_DISCARD})
             g2 == put(g1, EVENT_DECK,
                       shuffle_discard(get(g1, EVENT_DECK), get(g1, EVENT_DISCARD), pi))
         IN  Result(put(g2, EVENT_DISCARD, <<>>), "EmptyDeckError", NoCard)

\* GameState.spread_doom
spread_doom(g, sender, pi) ==
    LET g1 == record_change(add(g, {EVENT_DECK}), sender, {EVENT_DECK, EVENT_DISCARD})
        r == draw_from_event_deck(g1, FALSE, pi)
        g2 == add(r.g, {EVENT_DISCARD})
    IN  IF r.err # "" THEN r
        ELSE Result(put(g2, EVENT_DISCARD, bottom(get(g2, EVENT_DISCARD), r.card)), "", r.card)

\* NeighbourhoodDeck.add_terror(self.terror.draw()) on the pile of location
move_terror(g, location) ==
    LET card == DrawCard(get(g, TERROR), TRUE)
        g1 == put(g, TERROR, DrawRest(get(g, TERROR), TRUE))
        deck == get(g1, location)
    IN  put(g1, location, [deck EXCEPT !.attached_terror = top(deck.attached_terror, card)])

\* GameState.spread_terror
spread_terror(g, sender) ==
    IF ~g.has_terror THEN Result(g, "ValueError", NoCard)
    ELSE IF Len(get(g, TERROR)) = 0 THEN Result(g, "EmptyDeckError", NoCard)
    ELSE IF Len(get(g, EVENT_DISCARD)) > 0
    THEN LET location_card == get(g, EVENT_DISCARD)[1]
             changes == {TERROR, location_card.neighbourhood}
             g1 == record_change(add(g, changes), sender, changes)
         IN  Result(move_terror(g1, location_card.neighbourhood), "", location_card)
    ELSE LET g1 == record_change(add(g, {TERROR}), sender, {TERROR})
         IN  Result(move_terror(g1, DEFAULT_TERROR_NEIGHBOURHOOD(g.scenario)), "", NoCard)

\* GameState.place_terror
place_terror(g, neighbourhood, sender) ==
    IF ~g.has_terror THEN Result(g, "ValueError", NoCard)
    ELSE IF Len(get(g, TERROR)) = 0 THEN Result(g, "EmptyDeckError", NoCard)
    ELSE LET changes == {TERROR, neighbourhood}
             g1 == record_change(add(g, changes), sender, changes)
         IN  Result(move_terror(g1, neighbourhood), "", NoCard)

\* GameState.spread_clue
spread_clue(g, sender, pi, pi3) ==
    LET g1 == add(g, {EVENT_DECK})
        r == draw_from_event_deck(g1, TRUE, pi)
        nb == r.card.neighbourhood
        g2 == record_change(add(r.g, {nb}), sender, {EVENT_DECK, nb})
    IN  IF r.err # ""
        THEN Result(record_change(r.g, sender, {EVENT_DECK, EVENT_DISCARD}), r.err, NoCard)
        ELSE nb_shuffle_into_top_three(g2, nb, r.card, pi3)

\* GameState.gate_burst
gate_burst(g, sender, pi) ==
    LET changes == {EVENT_DECK, EVENT_DISCARD}
        g1 == record_change(add(g, changes), sender, changes)
        r == draw_from_event_deck(g1, TRUE, pi)
        g2 == put(r.g, EVENT_DECK,
                  shuffle_discard(get(r.g, EVENT_DECK), get(r.g, EVENT_DISCARD), pi))
    IN  IF r.err # "" THEN r
        ELSE Result(put(g2, EVENT_DISCARD, <<>>), "", r.card)

\* a draw_headline that leaves the drawn card on the pile
draw_headline_peek(g, sender) ==
    LET g1 == add(g, {HEADLINE})
        card == DrawCard(get(g1, HEADLINE), TRUE)
        g3 == [g1 EXCEPT !.obs.headline_draws = g.obs.headline_draws + 1]
    IN  IF Len(get(g1, HEADLINE)) = 0 THEN Result(g1, "EmptyDeckError", NoCard)
        ELSE IF is_rumor(card)
        THEN Result(record_change(put(add(g3, {RUMOR}), RUMOR, <<card>>), sender,
                                  {HEADLINE, RUMOR}), "", card)
        ELSE Result(record_change(g3, sender, {HEADLINE}), "", card)

\* a draw_headline that puts a rumor on the pile without clearing it
draw_headline_stack(g, sender) ==
    LET g1 == add(g, {HEADLINE})
        card == DrawCard(get(g1, HEADLINE), TRUE)
        g2 == put(g1, HEADLINE, DrawRest(get(g1, HEADLINE), TRUE))
        g3 == [g2 EXCEPT !.obs.headline_draws = g.obs.headline_draws + 1]
        g4 == add(g3, {RUMOR})
    IN  IF Len(get(g1, HEADLINE)) = 0 THEN Result(g1, "EmptyDeckError", NoCard)
        ELSE IF is_rumor(card)
        THEN Result(record_change(put(g4, RUMOR, Append(get(g4, RUMOR), card)), sender,
                                  {HEADLINE, RUMOR}), "", card)
        ELSE Result(record_change(g3, sender, {HEADLINE}), "", card)

\* GameState.draw_headline
draw_headline(g, sender) ==
    LET g1 == add(g, {HEADLINE})
        card == DrawCard(get(g1, HEADLINE), TRUE)
        g2 == put(g1, HEADLINE, DrawRest(get(g1, HEADLINE), TRUE))
        g3 == [g2 EXCEPT !.obs.headline_draws = g.obs.headline_draws + 1]
    IN  IF Len(get(g1, HEADLINE)) = 0 THEN Result(g1, "EmptyDeckError", NoCard)
        ELSE IF is_rumor(card)
        THEN Result(record_change(put(add(g3, {RUMOR}), RUMOR, <<card>>), sender,
                                  {HEADLINE, RUMOR}), "", card)
        ELSE Result(record_change(g3, sender, {HEADLINE}), "", card)

\* GameState.clear_rumor
clear_rumor(g, sender) ==
    Result(put(record_change(add(g, {RUMOR}), sender, {RUMOR}), RUMOR, <<>>), "", NoCard)

\* GameState.modify_counter_on_rumor: max(0, counters + modification)
modify_counter_on_rumor(g, modification, sender) ==
    LET g1 == record_change(add(g, {RUMOR}), sender, {RUMOR})
        rumor == get(g1, RUMOR)
        counters == IF rumor[1].counters + modification < 0 THEN 0
                    ELSE rumor[1].counters + modification
    IN  IF Len(rumor) = 0 THEN Result(g1, "IndexError", NoCard)
        ELSE Result(put(g1, RUMOR, [rumor EXCEPT ![1].counters = counters]), "", NoCard)

\* NeighbourhoodDeck.attach_codex_card: the guard reads the bound method
\* self.attach_codex_card, which is never None, so the call always raises
attach_codex_card(deck, card) == Result(deck, "ValueError", NoCard)

\* NeighbourhoodDeck.has_codex
has_codex(deck, number) ==
    Len(deck.attached_codex) = 1 /\ deck.attached_codex[1].id = number

\* the first neighbourhood of self.neighbourhoods whose pile has the codex
\* card attached, 0 for none
RECURSIVE codex_neighbourhood_from(_, _, _)
codex_neighbourhood_from(g, number, i) ==
    IF i > Len(g.neighbourhoods) THEN 0
    ELSE IF has_codex(get(g, g.neighbourhoods[i]), number) THEN i
    ELSE codex_neighbourhood_from(g, number, i + 1)

\* GameState.add_from_archive
add_from_archive(g, number, sender, pi) ==
    IF number \notin DOMAIN get(g, ARCHIVE) THEN Result(g, "ValueError", NoCard)
    ELSE LET g1 == add(g, {ARCHIVE})
             card == get(g1, ARCHIVE)[number]
             g2 == put(g1, ARCHIVE, RemoveKey(get(g1, ARCHIVE), number))
             nb == card.neighbourhood
             g4 == record_change(add(g2, {nb}), sender, {ARCHIVE, nb})
         IN  IF card.kind # "codex_neighbourhood"
             THEN LET g3 == record_change(add(g2, {CODEX}), sender, {ARCHIVE, CODEX})
                  IN  Result(put(g3, CODEX, add_card(get(g3, CODEX), card)), "", card)
             ELSE IF can_attach(card)
             THEN LET r == attach_codex_card(get(g4, nb), card)
                  IN  Result(put(g4, nb, r.g), r.err, NoCard)
             ELSE IF is_encounter(card) /\ card.id \in CODEX_SHUFFLE_ENCOUNTERS
             THEN nb_shuffle_into_top_three(g4, nb, card, pi)
             ELSE IF is_encounter(card) /\ card.id \in CODEX_TOP_ENCOUNTERS
             THEN Result(put(g4, nb, [get(g4, nb) EXCEPT !.cards = top(get(g4, nb).cards, card)]),
                         "", card)
             ELSE Result(g4, "", card)

\* GameState._detach_codex_card
detach_codex_card(g, neighbourhood) ==
    LET deck == get(g, neighbourhood)
        card == [deck.attached_codex[1] EXCEPT !.is_flipped = FALSE, !.counters = 0]
        g1 == put(g, neighbourhood, [deck EXCEPT !.attached_codex = <<>>])
    IN  put(g1, ARCHIVE, add_card(get(g1, ARCHIVE), card))

\* a return_to_archive that moves the codex card back as it is
return_to_archive_as_is(g, number, sender) ==
    IF number \in DOMAIN get(g, CODEX)
    THEN LET g1 == record_change(add(g, {CODEX, ARCHIVE}), sender, {CODEX, ARCHIVE})
             g2 == put(g1, CODEX, RemoveKey(get(g1, CODEX), number))
         IN  Result(put(g2, ARCHIVE, add_card(get(g2, ARCHIVE), get(g1, CODEX)[number])),
                    "", get(g1, CODEX)[number])
    ELSE Result(g, "ValueError", NoCard)

\* GameState.return_to_archive
return_to_archive(g, number, sender) ==
    LET i == codex_neighbourhood_from(g, number, 1)
    IN  IF number \in DOMAIN get(g, CODEX)
        THEN LET g1 == record_change(add(g, {CODEX, ARCHIVE}), sender, {CODEX, ARCHIVE})
                 card == [get(g1, CODEX)[number] EXCEPT !.counters = 0, !.is_flipped = FALSE]
                 g2 == put(g1, CODEX, RemoveKey(get(g1, CODEX), number))
             IN  Result(put(g2, ARCHIVE, add_card(get(g2, ARCHIVE), card)), "", card)
        ELSE IF i > 0
        THEN LET changes == {g.neighbourhoods[i], ARCHIVE}
                 g1 == record_change(add(g, changes), sender, changes)
             IN  Result(detach_codex_card(g1, g.neighbourhoods[i]), "", NoCard)
        ELSE Result(g, "ValueError", NoCard)

\* counters that follow the modification below zero
unclamped_counters(counters, modification) == counters + modification

\* max(0, counters + modification)
clamp_counters(counters, modification) ==
    IF counters + modification < 0 THEN 0 ELSE counters + modification

\* GameState.modify_counter_on_codex
modify_counter_on_codex(g, number, modification, sender) ==
    LET i == codex_neighbourhood_from(g, number, 1)
    IN  IF number \in DOMAIN get(g, CODEX)
        THEN LET g1 == record_change(add(g, {CODEX}), sender, {CODEX})
                 codex == get(g1, CODEX)
             IN  Result(put(g1, CODEX,
                            [codex EXCEPT ![number].counters =
                                clamp_counters(codex[number].counters, modification)]),
                        "", NoCard)
        ELSE IF i > 0
        THEN LET nb == g.neighbourhoods[i]
                 g1 == record_change(add(g, {nb}), sender, {nb})
                 deck == get(g1, nb)
             IN  Result(put(g1, nb,
                            [deck EXCEPT !.attached_codex[1].counters =
                                clamp_counters(deck.attached_codex[1].counters, modification)]),
                        "", NoCard)
        ELSE Result(g, "ValueError", NoCard)

\* GameState.flip_codex
flip_codex(g, number, sender) ==
    LET i == codex_neighbourhood_from(g, number, 1)
    IN  IF number \in DOMAIN get(g, CODEX)
        THEN LET g1 == record_change(add(g, {CODEX}), sender, {CODEX})
                 codex == get(g1, CODEX)
             IN  Result(put(g1, CODEX, [codex EXCEPT ![number].is_flipped = TRUE]), "",
                        [codex[number] EXCEPT !.is_flipped = TRUE])
        ELSE IF i > 0
        THEN LET nb == g.neighbourhoods[i]
                 g1 == record_change(add(g, {nb}), sender, {nb})
                 deck == get(g1, nb)
             IN  Result(put(g1, nb, [deck EXCEPT !.attached_codex[1].is_flipped = TRUE]), "",
                        [deck.attached_codex[1] EXCEPT !.is_flipped = TRUE])
        ELSE Result(g, "ValueError", NoCard)

\* the four draws of the special case of add_neighbourhood: each takes the
\* top card of the event deck and drops it, or reshuffles the discard pile
\* into the empty deck; only the first reshuffle has cards to order
dropped_draw(g, pi) ==
    draw_from_event_deck(g, TRUE,
        IF Len(get(g, EVENT_DISCARD)) = Len(pi) THEN pi ELSE <<>>).g

underworld_draws(g, pi) ==
    CHOOSE g4 \in {dropped_draw(g3, pi) :
                    g3 \in {dropped_draw(g2, pi) :
                        g2 \in {dropped_draw(g1, pi) :
                            g1 \in {dropped_draw(g, pi)}}}} : TRUE

\* GameState.add_neighbourhood
add_neighbourhood(g, neighbourhood, sender, pi, pi2) ==
    IF neighbourhood = THE_UNDERWORLD
    THEN LET changes == {neighbourhood, EVENT_DECK, EVENT_DISCARD}
             g1 == [g EXCEPT !.neighbourhoods = Append(g.neighbourhoods, THE_UNDERWORLD)]
             g2 == record_change(add(g1, changes), sender, changes)
             g3 == underworld_draws(g2, pi)
             later == g.later_event_decks[neighbourhood]
             g4 == put(g3, EVENT_DECK, Permute(get(g3, EVENT_DECK), pi2))
             g5 == put(g4, EVENT_DISCARD,
                       bottom(bottom(get(g4, EVENT_DISCARD), later[Len(later)]),
                              later[Len(later) - 1]))
             g6 == add_new(g5, neighbourhood, g.later_neighbourhoods[neighbourhood])
         IN  IF neighbourhood \notin DOMAIN g.later_event_decks
             THEN Result(g3, "KeyError", NoCard)
             ELSE Result([g6 EXCEPT
                             !.later_neighbourhoods = RemoveKey(g.later_neighbourhoods, neighbourhood),
                             !.later_event_decks = RemoveKey(g.later_event_decks, neighbourhood)],
                         "", NoCard)
    ELSE IF neighbourhood \notin DOMAIN g.later_neighbourhoods
    THEN Result(g, "KeyError", NoCard)
    ELSE LET g1 == add_new(g, neighbourhood, g.later_neighbourhoods[neighbourhood])
             g2 == [g1 EXCEPT
                       !.later_neighbourhoods = RemoveKey(g.later_neighbourhoods, neighbourhood),
                       !.neighbourhoods = Append(g.neighbourhoods, neighbourhood)]
             g3 == add(g2, {EVENT_DECK, EVENT_DISCARD})
             g4 == put(g3, EVENT_DECK,
                       shuffle_discard(get(g3, EVENT_DECK), get(g3, EVENT_DISCARD), pi))
             g5 == [put(g4, EVENT_DISCARD, <<>>) EXCEPT
                       !.later_event_decks = RemoveKey(g.later_event_decks, neighbourhood)]
         IN  IF neighbourhood \in DOMAIN g.later_event_decks
             THEN Result(record_change(g5, sender, {neighbourhood, EVENT_DECK, EVENT_DISCARD}),
                         "", NoCard)
             ELSE Result(record_change(g2, sender, {neighbourhood}), "", NoCard)

-----------------------------------------------------------------------------
(* message_handler.py: the command handlers.  A handler runs from the      *)
(* receipt of the message to its last reply without another handler        *)
(* touching the game in between.  A command that leaves the game as it was *)
(* (an error reply) leaves the model's state as it was.                    *)

\* the settings a game is started with
SettingsInputs ==
    {<<ECHOES_OF_THE_DEEP, BASE>>, <<TYRANTS_OF_RUIN, UNDER_DARK_WAVES>>,
     <<THE_KEY_AND_THE_GATE, SECRETS_OF_THE_ORDER>>}

\* a ticket that is in nobody's hands
NoTicket == 0

\* the orders a reshuffle of the event discard pile can give
DiscardShuffles(g) == ShuffleOutcomes(Len(get(g, EVENT_DISCARD)))

\* the orders of a card shuffled in with the two top cards of a pile
TopThreeShuffles == PermsOf(3)

\* the game but for the observation of the running command
SameGame(g, h) ==
    [g EXCEPT !.obs.opid = h.obs.opid, !.obs.lastop = h.obs.lastop] = h

\* what a handler sends: the kind of the message to the sender, whether
\* send_log ran, and whether update() ran
Out(reply, log, update) == [reply |-> reply, log |-> log, update |-> update]

NoOut == Out("none", FALSE, FALSE)

\* MessageHandler.handle_message: a ValueError or an AttributeError that
\* leaves the handler is answered with an error; any other exception goes on
\* to the loop of MessageHandler.handler, which logs it and sends nothing
Dispatcher(err) ==
    IF err \in {"ValueError", "AttributeError"} THEN Out("error", FALSE, FALSE) ELSE NoOut

\* the try / except of each command handler, for the exception err ("" for
\* none) of its call on the game
Handled(op, err) ==
    CASE op \in {"draw", "draw_terror"} /\ err = "" -> Out("viewer_reply", TRUE, TRUE)
      [] op = "draw" /\ err = "ValueError" -> Out("error", FALSE, FALSE)
      [] op = "draw_terror" /\ err = "EmptyDeckError" -> Out("error", FALSE, FALSE)
      [] op = "resolve_event" /\ err = "" -> Out("none", TRUE, TRUE)
      [] op = "resolve_event" /\ err = "ValueError" -> Out("error", FALSE, FALSE)
      [] op = "add_codex" /\ err = "" -> Out("ack", TRUE, TRUE)
      [] op = "add_codex" /\ err = "KeyError" -> Out("error", FALSE, FALSE)
      [] op \in {"flip_codex", "remove_codex", "undo", "redo"} /\ err = "" ->
            Out("ack", TRUE, TRUE)
      [] op \in {"flip_codex", "remove_codex", "undo", "redo"} /\ err = "ValueError" ->
            Out("error", FALSE, FALSE)
      [] op \in {"add_counter_codex", "remove_counter_codex"} /\ err = "" ->
            Out("ack", FALSE, TRUE)
      [] op \in {"add_counter_codex", "remove_counter_codex"} /\ err = "ValueError" ->
            Out("error", FALSE, FALSE)
      [] op = "add_deck" /\ err = "" -> Out("ack", TRUE, TRUE)
      [] op \in {"spread_clue", "spread_doom"} /\ err = "" -> Out("viewer_reply", TRUE, TRUE)
      [] op \in {"spread_clue", "spread_doom"} /\ err = "EmptyDeckError" ->
            Out("viewer_reply_empty", TRUE, TRUE)
      [] op \in {"spread_terror", "place_terror"} /\ err = "" -> Out("ack", TRUE, TRUE)
      [] op \in {"spread_terror", "place_terror"} /\ err = "EmptyDeckError" ->
            Out("ack", TRUE, FALSE)
      [] op = "gate_burst" /\ err = "" -> Out("viewer_reply", TRUE, TRUE)
      [] op = "headline" /\ err = "" -> Out("viewer_reply", TRUE, TRUE)
      [] op = "headline" /\ err = "EmptyDeckError" -> Out("viewer_reply_empty", TRUE, FALSE)
      [] op \in {"remove_rumor", "add_counter_rumor", "remove_counter_rumor"} /\ err = "" ->
            Out("ack", TRUE, TRUE)
      [] OTHER -> Dispatcher(err)

\* MessageHandler.send_log raises KeyError for a sender that is not seated;
\* what follows it in the handler is then not reached
Outcome(op, sender, err) ==
    LET out == Handled(op, err)
    IN  IF out.log /\ sender \notin DOMAIN players
        THEN Out(out.reply, FALSE, FALSE)
        ELSE out

\* MessageHandler.send_log: the entry put at the head of game_logs
LogEntry(sender, text) == [who |-> sender, text |-> text]

\* the effect of a handler whose call on the game returned r
Commit(op, sender, r) ==
    /\ fuel > 0
    /\ IF SameGame(r.g, game)
       THEN UNCHANGED vars
       ELSE /\ game' = r.g
            /\ fuel' = fuel - 1
            /\ last' = [op |-> op, who |-> sender, err |-> r.err, pre |-> Snapshot(game),
                        out |-> Outcome(op, sender, r.err),
                        prev |-> [op |-> last.op, who |-> last.who, err |-> last.err]]
            /\ game_logs' = IF Outcome(op, sender, r.err).log
                            THEN <<LogEntry(sender, op)>> \o game_logs
                            ELSE game_logs
            /\ UNCHANGED <<connected_clients, players, player_colours, has_game, task>>

draw(sender) ==
    \E nb \in Range(game.neighbourhoods) :
        Commit("draw", sender, draw_from_neighbourhood(Begin(game, sender), nb, sender))

resolve_event(sender) ==
    \E identifier \in DOMAIN get(game, ACTION_REQUIRED) \cup {NoTicket}, passed \in BOOLEAN :
        \E pi \in IF passed \/ identifier = NoTicket THEN {<<1, 2, 3>>} ELSE TopThreeShuffles :
            Commit("resolve_event", sender,
                   resolve_temporary_zone(Begin(game, sender), identifier, passed, sender, pi))

\* card = self.game.archive[index] raises KeyError for a number that is not
\* in the archive, before the game is called
add_codex(sender) ==
    \E index \in Range(REQUIRED_CODEX(game.scenario)) :
        \E pi \in IF index \in CODEX_SHUFFLE_ENCOUNTERS THEN TopThreeShuffles ELSE {<<1, 2, 3>>} :
            IF index \notin DOMAIN get(game, ARCHIVE)
            THEN Commit("add_codex", sender, Result(Begin(game, sender), "KeyError", NoCard))
            ELSE Commit("add_codex", sender, add_from_archive(Begin(game, sender), index, sender, pi))

flip_codex_handler(sender) ==
    \E index \in Range(REQUIRED_CODEX(game.scenario)) :
        Commit("flip_codex", sender, flip_codex(Begin(game, sender), index, sender))

remove_codex(sender) ==
    \E index \in Range(REQUIRED_CODEX(game.scenario)) :
        Commit("remove_codex", sender, return_to_archive(Begin(game, sender), index, sender))

add_counter_codex(sender) ==
    \E index \in Range(REQUIRED_CODEX(game.scenario)) :
        Commit("add_counter_codex", sender,
               modify_counter_on_codex(Begin(game, sender), index, 1, sender))

remove_counter_codex(sender) ==
    \E index \in Range(REQUIRED_CODEX(game.scenario)) :
        Commit("remove_counter_codex", sender,
               modify_counter_on_codex(Begin(game, sender), index, -1, sender))

draw_terror(sender) ==
    \E nb \in Range(game.neighbourhoods) :
        Commit("draw_terror", sender, draw_terror_from_neighbourhood(Begin(game, sender), nb, sender))

add_deck(sender) ==
    \E nb \in Range(RequiredLater(game.scenario)) :
        \E pi \in DiscardShuffles(game) :
            \E pi2 \in ShuffleOutcomes(Len(get(underworld_draws(game, pi), EVENT_DECK))) :
                Commit("add_deck", sender, add_neighbourhood(Begin(game, sender), nb, sender, pi, pi2))

spread_clue_handler(sender) ==
    \E pi \in IF Len(get(game, EVENT_DECK)) = 0 THEN DiscardShuffles(game) ELSE {<<>>},
       pi3 \in IF Len(get(game, EVENT_DECK)) = 0 THEN {<<1, 2, 3>>} ELSE TopThreeShuffles :
        Commit("spread_clue", sender, spread_clue(Begin(game, sender), sender, pi, pi3))

spread_doom_handler(sender) ==
    \E pi \in DiscardShuffles(game) :
        Commit("spread_doom", sender, spread_doom(Begin(game, sender), sender, pi))

spread_terror_handler(sender) ==
    Commit("spread_terror", sender, spread_terror(Begin(game, sender), sender))

place_terror_handler(sender) ==
    \E nb \in Range(game.neighbourhoods) :
        Commit("place_terror", sender, place_terror(Begin(game, sender), nb, sender))

gate_burst_handler(sender) ==
    \E pi \in DiscardShuffles(game) :
        Commit("gate_burst", sender, gate_burst(Begin(game, sender), sender, pi))

headline(sender) ==
    Commit("headline", sender, draw_headline(Begin(game, sender), sender))

remove_rumor(sender) ==
    IF Len(get(game, RUMOR)) = 0
    THEN Commit("remove_rumor", sender, Result(Begin(game, sender), "error", NoCard))
    ELSE Commit("remove_rumor", sender, clear_rumor(Begin(game, sender), sender))

add_counter_rumor(sender) ==
    IF Len(get(game, RUMOR)) = 0
    THEN Commit("add_counter_rumor", sender, Result(Begin(game, sender), "error", NoCard))
    ELSE Commit("add_counter_rumor", sender, modify_counter_on_rumor(Begin(game, sender), 1, sender))

remove_counter_rumor(sender) ==
    IF Len(get(game, RUMOR)) = 0 \/ get(game, RUMOR)[1].counters = 0
    THEN Commit("remove_counter_rumor", sender, Result(Begin(game, sender), "error", NoCard))
    ELSE Commit("remove_counter_rumor", sender, modify_counter_on_rumor(Begin(game, sender), -1, sender))

undo_handler(sender) ==
    \E r \in undo(Begin(game, sender), sender) : Commit("undo", sender, r)

redo_handler(sender) ==
    \E r \in redo(Begin(game, sender), sender) : Commit("redo", sender, r)

-----------------------------------------------------------------------------
(* The specification: a game that start_game has just created, with every  *)
(* open connection seated, and the commands the connections send.          *)

\* a handler task: where it stands (pc), the command it runs or ran last with
\* the name and colour asked for, the message last sent to its connection
\* alone, and (observation only) the players that were seated when the
\* command began, those it sent boot to, and whether its disconnection left
\* no connection
Task(pc, cmd, name, colour, reply, before, booted, was_last) ==
    [pc |-> pc, cmd |-> cmd, name |-> name, colour |-> colour, reply |-> reply,
     before |-> before, booted |-> booted, was_last |-> was_last]

\* a handler task that is waiting for the next message of its connection
Idle == Task("idle", "", 0, 0, "", {}, {}, FALSE)

\* no handler task: the connection is not open
Closed == Task("closed", "", 0, 0, "", {}, {}, FALSE)

\* the roster and the tasks of a running game in which the connections cs
\* are seated
Seated(cs) ==
    /\ connected_clients = cs
    /\ players = [c \in cs |-> c]
    /\ player_colours = [c \in cs |-> c]
    /\ has_game = TRUE
    /\ game_logs = <<>>
    /\ task = [c \in Conns |-> Idle]

Init ==
    /\ Seated(1..TwoConns)
    /\ fuel = MaxOps
    /\ \E settings \in SettingsInputs, rev \in BOOLEAN :
          /\ game = GameState(settings[1], settings[2], rev)
          /\ last = [op |-> "start_game", who |-> 0, err |-> "",
                     pre |-> Snapshot(GameState(settings[1], settings[2], rev)),
                     out |-> NoOut,
               prev |-> [op |-> "", who |-> 0, err |-> ""]]

Draw == \E sender \in connected_clients : draw(sender)
ResolveEvent == \E sender \in connected_clients : resolve_event(sender)
AddCodex == \E sender \in connected_clients : add_codex(sender)
FlipCodex == \E sender \in connected_clients : flip_codex_handler(sender)
RemoveCodex == \E sender \in connected_clients : remove_codex(sender)
AddCounterCodex == \E sender \in connected_clients : add_counter_codex(sender)
RemoveCounterCodex == \E sender \in connected_clients : remove_counter_codex(sender)
DrawTerror == \E sender \in connected_clients : draw_terror(sender)
AddDeck == \E sender \in connected_clients : add_deck(sender)
SpreadClue == \E sender \in connected_clients : spread_clue_handler(sender)
SpreadDoom == \E sender \in connected_clients : spread_doom_handler(sender)
SpreadTerror == \E sender \in connected_clients : spread_terror_handler(sender)
PlaceTerror == \E sender \in connected_clients : place_terror_handler(sender)
GateBurst == \E sender \in connected_clients : gate_burst_handler(sender)
Headline == \E sender \in connected_clients : headline(sender)
RemoveRumor == \E sender \in connected_clients : remove_rumor(sender)
AddCounterRumor == \E sender \in connected_clients : add_counter_rumor(sender)
RemoveCounterRumor == \E sender \in connected_clients : remove_counter_rumor(sender)
Undo == \E sender \in connected_clients : undo_handler(sender)
Redo == \E sender \in connected_clients : redo_handler(sender)

Next ==
    \/ Draw
    \/ ResolveEvent
    \/ AddCodex
    \/ FlipCodex
    \/ RemoveCodex
    \/ AddCounterCodex
    \/ RemoveCounterCodex
    \/ DrawTerror
    \/ AddDeck
    \/ SpreadClue
    \/ SpreadDoom
    \/ SpreadTerror
    \/ PlaceTerror
    \/ GateBurst
    \/ Headline
    \/ RemoveRumor
    \/ AddCounterRumor
    \/ RemoveCounterRumor
    \/ Undo
    \/ Redo

Spec == Init /\ [][Next]_vars

\* a game of three connections
InitThree ==
    /\ Seated(Conns)
    /\ fuel = MaxOps
    /\ game = GameState(THE_KEY_AND_THE_GATE, SECRETS_OF_THE_ORDER, FALSE)
    /\ last = [op |-> "start_game", who |-> 0, err |-> "",
               pre |-> Snapshot(GameState(THE_KEY_AND_THE_GATE, SECRETS_OF_THE_ORDER, FALSE)),
               out |-> NoOut,
               prev |-> [op |-> "", who |-> 0, err |-> ""]]

SpecThree == InitThree /\ [][Next]_vars

-----------------------------------------------------------------------------
(* The roster: connections open and close, start games and join them.  A   *)
(* handler runs up to its next await of a send in one step; the other      *)
(* handlers can run before it goes on.                                     *)

NameInputs == 1..NumNames
ColourInputs == 1..NumColours

\* the connections of the roster runs
SessionConns == 1..TwoConns

NoRoster == [c \in {} |-> 0]

\* the game every start_game of the roster runs creates
SessionGame == GameState(ECHOES_OF_THE_DEEP, BASE, FALSE)

\* a loop that takes the next message while the command before it is still
\* running
ReadyAnytime(c) == task[c].pc \notin {"closed", "un_log", "un_hello"}

\* MessageHandler.handler: async for message in websocket awaits
\* handle_message before it takes the next message, and unregister runs in
\* the finally of the loop
Ready(c) == task[c].pc = "idle"

\* MessageHandler.register
Register(c) ==
    /\ fuel > 0
    /\ task[c].pc = "closed"
    /\ c \notin connected_clients
    /\ connected_clients' = connected_clients \cup {c}
    /\ task' = [d \in Conns |-> IF d = c THEN Idle ELSE [task[d] EXCEPT !.was_last = FALSE]]
    /\ fuel' = fuel - 1
    /\ UNCHANGED <<game, players, player_colours, has_game, game_logs, last>>

\* MessageHandler.start_game up to its first suspension: at await
\* self.broadcast_players(Boot()) when a player is seated; with nobody
\* seated asyncio.gather() of no sends is done at once, and the handler runs
\* on through the three clear() calls to await sender.send(message)
Starting(c, g, name, colour) ==
    /\ game' = g
    /\ has_game' = TRUE
    /\ IF DOMAIN players # {}
       THEN /\ task' = [task EXCEPT ![c] = Task("sg_boot", "start_game", name, colour,
                                               "", DOMAIN players, DOMAIN players,
                                               FALSE)]
            /\ UNCHANGED <<players, player_colours, game_logs>>
       ELSE /\ task' = [task EXCEPT ![c] = Task("sg_update", "start_game", name,
                                               colour, "update", {}, {}, FALSE)]
            /\ players' = NoRoster
            /\ player_colours' = NoRoster
            /\ game_logs' = <<>>
    /\ UNCHANGED connected_clients

\* start_game with settings that pass the validation
StartGame(c) ==
    \E name \in NameInputs, colour \in ColourInputs :
        /\ fuel > 0
        /\ Ready(c)
        /\ fuel' = fuel - 1
        /\ Starting(c, SessionGame, name, colour)
        /\ UNCHANGED last

\* start_game from the broadcast of boot to await sender.send(message)
StartGameClear(c) ==
    /\ task[c].pc = "sg_boot"
    /\ players' = NoRoster
    /\ player_colours' = NoRoster
    /\ game_logs' = <<>>
    /\ task' = [task EXCEPT ![c].pc = "sg_update", ![c].reply = "update"]
    /\ UNCHANGED <<game, connected_clients, has_game, fuel, last>>

\* start_game from the update sent to await self.send_hellos(); the bidict
\* raises ValueDuplicationError for a name another connection holds, which
\* ends the command
StartGameSeat(c) ==
    /\ task[c].pc = "sg_update"
    /\ IF \E d \in DOMAIN players \ {c} : players[d] = task[c].name
       THEN /\ task' = [task EXCEPT ![c].pc = "idle", ![c].cmd = "start_game raised"]
            /\ UNCHANGED <<players, player_colours>>
       ELSE /\ players' = (c :> task[c].name) @@ players
            /\ player_colours' = (c :> task[c].colour) @@ player_colours
            /\ task' = [task EXCEPT ![c].pc = "sg_hello"]
    /\ UNCHANGED <<game, connected_clients, has_game, game_logs, fuel, last>>

\* start_game from the hellos to the await in send_log; send_log raises
\* KeyError for a sender that is seated no more, which ends the command
StartGameLog(c) ==
    /\ task[c].pc = "sg_hello"
    /\ IF c \in DOMAIN players /\ c \in DOMAIN player_colours
       THEN /\ game_logs' = <<LogEntry(c, "start_game")>> \o game_logs
            /\ task' = [task EXCEPT ![c].pc = "sg_log"]
       ELSE /\ task' = [task EXCEPT ![c].pc = "idle", ![c].cmd = "start_game raised"]
            /\ UNCHANGED game_logs
    /\ UNCHANGED <<game, connected_clients, players, player_colours, has_game, fuel, last>>

\* start_game returns
StartGameDone(c) ==
    /\ task[c].pc = "sg_log"
    /\ task' = [task EXCEPT ![c].pc = "idle", ![c].cmd = "start_game done"]
    /\ UNCHANGED <<game, connected_clients, players, player_colours, has_game, game_logs,
                   fuel, last>>

\* the reply of MessageHandler.connect: the three guards, then self.game,
\* which raises ValueError when there is no game
connect_reply(name, colour) ==
    IF has_game THEN "The game has not been started yet."
    ELSE IF \E d \in DOMAIN players : players[d] = name
    THEN "That name has already been chosen."
    ELSE IF \E d \in DOMAIN player_colours : player_colours[d] = colour
    THEN "That color has already been chosen."
    ELSE "Bad connection message"

\* MessageHandler.connect: every path ends in an error sent to the sender
Connect(c) ==
    \E name \in NameInputs, colour \in ColourInputs :
        /\ fuel > 0
        /\ Ready(c)
        /\ task' = [task EXCEPT ![c] = Task("idle", "connect", name, colour,
                                            connect_reply(name, colour), DOMAIN players,
                                            {}, FALSE)]
        /\ fuel' = fuel - 1
        /\ UNCHANGED <<game, connected_clients, players, player_colours, has_game,
                       game_logs, last>>

\* an unregister that drops the game and keeps the logs
TeardownGameOnly(clients, logs) ==
    /\ has_game' = IF clients = {} THEN FALSE ELSE has_game
    /\ game_logs' = logs

\* MessageHandler.unregister, its last part: with no connection left the
\* game and the logs are dropped; then await self.send_hellos()
Teardown(clients, logs) ==
    /\ has_game' = IF clients = {} THEN FALSE ELSE has_game
    /\ game_logs' = IF clients = {} THEN <<>> ELSE logs

\* unregister at await self.send_hellos(): the broadcast suspends when a
\* connection is left to send to, and is done at once when none is
Leaving(c, clients, was_last) ==
    IF clients # {}
    THEN [task[c] EXCEPT !.pc = "un_hello", !.cmd = "unregister", !.was_last = was_last]
    ELSE [Closed EXCEPT !.cmd = "unregister done", !.before = task[c].before,
                        !.was_last = was_last]

\* the connection closes: MessageHandler.unregister up to its first await,
\* which is in send_log for a seated connection and send_hellos otherwise
Close(c) ==
    /\ fuel > 0
    /\ Ready(c)
    /\ connected_clients' = connected_clients \ {c}
    /\ fuel' = fuel - 1
    /\ IF c \in DOMAIN players
       THEN /\ game_logs' = <<LogEntry(c, "disconnected")>> \o game_logs
            /\ task' = [task EXCEPT ![c].pc = "un_log", ![c].cmd = "unregister",
                                    ![c].before = DOMAIN players,
                                    ![c].was_last = (connected_clients \ {c} = {})]
            /\ UNCHANGED has_game
       ELSE /\ Teardown(connected_clients \ {c}, game_logs)
            /\ task' = [task EXCEPT ![c] = [Leaving(c, connected_clients \ {c},
                                                    connected_clients \ {c} = {})
                                            EXCEPT !.before = {}]]
    /\ UNCHANGED <<game, players, player_colours, last>>

\* unregister from the log sent to await self.send_hellos(): del
\* self.player_colours[websocket] raises KeyError for a connection a
\* start_game has unseated meanwhile, which ends the task
Unseat(c) ==
    /\ task[c].pc = "un_log"
    /\ IF c \in DOMAIN player_colours /\ c \in DOMAIN players
       THEN /\ player_colours' = RemoveKey(player_colours, c)
            /\ players' = RemoveKey(players, c)
            /\ Teardown(connected_clients, game_logs)
            /\ task' = [task EXCEPT ![c] = Leaving(c, connected_clients, task[c].was_last)]
       ELSE /\ task' = [task EXCEPT ![c] = [Closed EXCEPT !.cmd = "unregister raised",
                                                          !.before = task[c].before,
                                                          !.was_last = task[c].was_last]]
            /\ UNCHANGED <<players, player_colours, has_game, game_logs>>
    /\ UNCHANGED <<game, connected_clients, fuel, last>>

\* unregister returns
Unregistered(c) ==
    /\ task[c].pc = "un_hello"
    /\ task' = [task EXCEPT ![c] = [Closed EXCEPT !.cmd = "unregister done",
                                                  !.before = task[c].before,
                                                  !.was_last = task[c].was_last]]
    /\ UNCHANGED <<game, connected_clients, players, player_colours, has_game, game_logs,
                   fuel, last>>

\* the server after construction: no connection, no game
InitSession ==
    /\ connected_clients = {}
    /\ players = NoRoster
    /\ player_colours = NoRoster
    /\ has_game = FALSE
    /\ game_logs = <<>>
    /\ task = [c \in Conns |-> Closed]
    /\ fuel = SessionOps
    /\ game = SessionGame
    /\ last = [op |-> "", who |-> 0, err |-> "", pre |-> Snapshot(SessionGame),
               out |-> NoOut,
               prev |-> [op |-> "", who |-> 0, err |-> ""]]

Registers == \E c \in SessionConns : Register(c)
StartGames == \E c \in SessionConns : StartGame(c)
StartGameClears == \E c \in SessionConns : StartGameClear(c)
StartGameSeats == \E c \in SessionConns : StartGameSeat(c)
StartGameLogs == \E c \in SessionConns : StartGameLog(c)
StartGameDones == \E c \in SessionConns : StartGameDone(c)
Connects == \E c \in SessionConns : Connect(c)
Closes == \E c \in SessionConns : Close(c)
Unseats == \E c \in SessionConns : Unseat(c)
Unregistereds == \E c \in SessionConns : Unregistered(c)

NextSession ==
    \/ Registers
    \/ StartGames
    \/ StartGameClears
    \/ StartGameSeats
    \/ StartGameLogs
    \/ StartGameDones
    \/ Connects
    \/ Closes
    \/ Unseats
    \/ Unregistereds

SpecSession == InitSession /\ [][NextSession]_vars

\* a game of Echoes of the Deep in which the connections spread clues and
\* doom, draw, resolve events, undo and redo
InitEvents ==
    /\ Seated(1..TwoConns)
    /\ fuel = DeepOps
    /\ game = GameState(ECHOES_OF_THE_DEEP, BASE, FALSE)
    /\ last = [op |-> "start_game", who |-> 0, err |-> "",
               pre |-> Snapshot(GameState(ECHOES_OF_THE_DEEP, BASE, FALSE)),
               out |-> NoOut,
               prev |-> [op |-> "", who |-> 0, err |-> ""]]

NextEvents ==
    \/ Draw
    \/ ResolveEvent
    \/ SpreadClue
    \/ SpreadDoom
    \/ Undo
    \/ Redo

SpecEvents == InitEvents /\ [][NextEvents]_vars

\* the effect of a handler whose call on the game returned r, the reply it
\* sent included, whether or not the game changed
Walked(op, sender, r) ==
    /\ fuel > 0
    /\ game' = r.g
    /\ fuel' = fuel - 1
    /\ last' = [op |-> op, who |-> sender, err |-> r.err, pre |-> Snapshot(game),
                out |-> Outcome(op, sender, r.err),
                prev |-> [op |-> last.op, who |-> last.who, err |-> last.err]]
    /\ game_logs' = IF Outcome(op, sender, r.err).log
                    THEN <<LogEntry(sender, op)>> \o game_logs
                    ELSE game_logs
    /\ UNCHANGED <<connected_clients, players, player_colours, has_game, task>>

\* MessageHandler.undo
UndoCommand ==
    \E sender \in connected_clients :
        \E r \in undo(Begin(game, sender), sender) : Walked("undo", sender, r)

\* MessageHandler.redo
RedoCommand ==
    \E sender \in connected_clients :
        \E r \in redo(Begin(game, sender), sender) : Walked("redo", sender, r)

\* a game of Echoes of the Deep in which every undo and redo command is
\* observed, the refused ones too
NextHistory ==
    \/ Draw
    \/ SpreadClue
    \/ SpreadDoom
    \/ UndoCommand
    \/ RedoCommand

SpecHistory == InitEvents /\ [][NextHistory]_vars

-----------------------------------------------------------------------------
(* The read commands.                                                      *)

\* what a read of the game gives: the game after it, "" or why the handler
\* answers with an error, and the cards of the reply
Viewed(g, err, cards) == [g |-> g, err |-> err, cards |-> cards]

\* the numbers of S in increasing order
RECURSIVE Ascending(_)
Ascending(S) ==
    IF S = {} THEN <<>>
    ELSE LET least == CHOOSE x \in S : \A y \in S : x <= y
         IN  <<least>> \o Ascending(S \ {least})

\* the cards of a codex or archive pile, sorted by number
ByNumber(pile) ==
    LET numbers == Ascending(DOMAIN pile)
    IN  [i \in DOMAIN numbers |-> pile[numbers[i]]]

\* MessageHandler.view_discard: the cards of self.game.discard
view_discard(g) == Viewed(g, "", get(g, EVENT_DISCARD))

\* GameState.get_codex
get_codex(g) == Viewed(g, "", ByNumber(get(g, CODEX)))

\* GameState.get_archive
get_archive(g) == Viewed(g, "", ByNumber(get(g, ARCHIVE)))

\* GameState.view_codex_card
view_codex_card(g, neighbourhood) == Viewed(g, "", get(g, neighbourhood).attached_codex)

\* a view of the rumor that takes the card off the pile
view_rumor_take(g) ==
    LET rumor == get(g, RUMOR)
    IN  IF Len(rumor) > 0 THEN Viewed(put(g, RUMOR, Tail(rumor)), "", <<rumor[1]>>)
        ELSE Viewed(g, "no rumor", <<>>)

\* MessageHandler.view_rumor: the first card of self.game.rumor, an error
\* when there is none
view_rumor(g) ==
    LET rumor == get(g, RUMOR)
    IN  IF Len(rumor) > 0 THEN Viewed(g, "", <<rumor[1]>>)
        ELSE Viewed(g, "no rumor", <<>>)

\* the message of a read command, which goes to the sender alone
ViewerReply(r) ==
    IF r.err # "" THEN Out("error", FALSE, FALSE)
    ELSE IF r.cards = <<>> THEN Out("viewer_reply_empty", FALSE, FALSE)
    ELSE Out("viewer_reply", FALSE, FALSE)

\* the effect of a read command whose read of the game gave r
Answer(op, sender, r) ==
    /\ fuel > 0
    /\ game' = r.g
    /\ fuel' = fuel - 1
    /\ last' = [op |-> op, who |-> sender, err |-> r.err, pre |-> Snapshot(game),
                out |-> ViewerReply(r),
                prev |-> [op |-> last.op, who |-> last.who, err |-> last.err]]
    /\ UNCHANGED <<connected_clients, players, player_colours, has_game, game_logs, task>>

ViewDiscard == \E sender \in connected_clients : Answer("view_discard", sender, view_discard(game))
ViewCodex == \E sender \in connected_clients : Answer("view_codex", sender, get_codex(game))
ViewArchive == \E sender \in connected_clients : Answer("view_archive", sender, get_archive(game))
ViewAttachedCodex ==
    \E sender \in connected_clients, neighbourhood \in Neighbourhood :
        Answer("view_attached_codex", sender, view_codex_card(game, neighbourhood))
ViewRumor == \E sender \in connected_clients : Answer("view_rumor", sender, view_rumor(game))

\* games in which cards are drawn, doom is spread, cards are added to the
\* codex and headlines are drawn, and the piles are read
NextViews ==
    \/ Draw
    \/ SpreadDoom
    \/ AddCodex
    \/ Headline
    \/ ViewDiscard
    \/ ViewCodex
    \/ ViewArchive
    \/ ViewAttachedCodex
    \/ ViewRumor

SpecViews == Init /\ [][NextViews]_vars

-----------------------------------------------------------------------------
(* Properties of the history engine.                                       *)

\* the most recent applied change-set of a connection
TopChange(p) == game.C[p][game.j[p]]

\* the latest command of p that changed the game recorded a change-set, and
\* that change-set is still the most recent applied one of p
RecordedLatest(p) ==
    /\ game.j[p] >= 1
    /\ game.obs.cstamp[p][game.j[p]] = game.obs.lastop[p]

\* p performed a mutating operation, q then performed one, and q's is the
\* command that led to this state
ThenMutated(p, q) ==
    /\ p # q
    /\ RecordedLatest(p)
    /\ RecordedLatest(q)
    /\ game.obs.lastop[p] < game.obs.lastop[q]
    /\ game.obs.lastop[q] = game.obs.opid

\* no connection other than p and q has a most recent change-set that
\* shares a label with that of p
NoThirdParty(p, q) ==
    \A r \in Conns \ {p, q} : game.j[r] >= 1 => TopChange(r) \cap TopChange(p) = {}

\* C1 as stated: after p mutates Lp and q then mutates Lq, can_undo(p) is
\* false when Lp and Lq share a label and true when they are disjoint.
C1_NonInterferenceAsStated ==
    \A p \in DOMAIN players, q \in DOMAIN players :
        ThenMutated(p, q) =>
            can_undo(game, p) = (TopChange(p) \cap TopChange(q) = {})

\* C1 amended: after p mutates Lp and q then mutates Lq, can_undo(p) is
\* false when Lp and Lq share a label, and true when they are disjoint and
\* no third connection's most recent change-set shares a label with Lp.
C1_NonInterference ==
    \A p \in DOMAIN players, q \in DOMAIN players :
        ThenMutated(p, q) =>
            /\ TopChange(p) \cap TopChange(q) # {} => ~can_undo(game, p)
            /\ TopChange(p) \cap TopChange(q) = {} /\ NoThirdParty(p, q)
                  => can_undo(game, p)

\* three connections have mutated, the last two on disjoint labels, and the
\* first of these two can undo
C1_Witness ==
    \E p \in DOMAIN players, q \in DOMAIN players, r \in DOMAIN players :
        /\ r \notin {p, q}
        /\ ThenMutated(p, q)
        /\ game.j[r] >= 1
        /\ TopChange(p) \cap TopChange(q) = {}
        /\ can_undo(game, p)

\* C2: whenever can_undo(p) holds, the current snapshot of every label of
\* p's most recent change-set was made by the command that recorded that
\* change-set (so that stepping the label back undoes p's action only).
C2_HeadIsOwnAction ==
    \A p \in DOMAIN players :
        can_undo(game, p) =>
            \A l \in TopChange(p) :
                game.obs.stamp[l][game.idx[l]] = game.obs.cstamp[p][game.j[p]]

\* C3: when X's most recent change-set shares a label with that of a later
\* action of Y that is Y's most recent one, X cannot undo and Y can.
C3_BlockedUndo ==
    \A X \in DOMAIN players, Y \in DOMAIN players :
        ThenMutated(X, Y) /\ TopChange(X) \cap TopChange(Y) # {} =>
            ~can_undo(game, X) /\ can_undo(game, Y)

\* only the connection p has changed the game
OnlyActor(p) == \A q \in Conns \ {p} : game.obs.lastop[q] = 0

\* C4: with one connection playing, an undo followed at once by a redo
\* brings every pile, every timeline index and the change log back to what
\* they were before the undo; undo and redo change nothing else of the game.
C4_UndoRedoRoundTrip ==
    [][(last'.op \in {"undo", "redo"} /\ game' # game /\ OnlyActor(last'.who)) =>
          /\ [game' EXCEPT !.idx = game.idx, !.j = game.j, !.obs = game.obs] = game
          /\ (last'.op = "redo" /\ last.op = "undo" /\ last.err = ""
                /\ last.who = last'.who) =>
                    last'.err = "" /\ Snapshot(game') = last.pre]_vars

\* a redo right after an undo of the only playing connection, which changed
\* the piles
C4_Witness ==
    /\ last.op = "redo" /\ last.err = ""
    /\ last.prev.op = "undo" /\ last.prev.err = "" /\ last.prev.who = last.who
    /\ OnlyActor(last.who)
    /\ Live(game) # last.pre.live

\* the commands that mutate the piles
MutatingOps ==
    {"draw", "resolve_event", "add_codex", "flip_codex", "remove_codex",
     "add_counter_codex", "remove_counter_codex", "draw_terror", "add_deck",
     "spread_clue", "spread_doom", "spread_terror", "place_terror", "gate_burst",
     "headline", "remove_rumor", "add_counter_rumor", "remove_counter_rumor"}

\* C5: with one connection playing, an undo right after a mutating command
\* that succeeded brings every pile under every label back to what it was
\* before the command.
C5_UndoRestoresPiles ==
    [][(last'.op = "undo" /\ game' # game /\ last.op \in MutatingOps /\ last.err = ""
          /\ last.who = last'.who /\ OnlyActor(last.who)) =>
              last'.err = "" /\ Live(game') = last.pre.live]_vars

-----------------------------------------------------------------------------
(* Properties of the piles.                                                *)

RECURSIVE SumOver(_, _)
\* the sum of the function f over a finite subset of its domain
SumOver(S, f) ==
    IF S = {} THEN 0
    ELSE LET x == CHOOSE y \in S : TRUE IN f[x] + SumOver(S \ {x}, f)

\* how many cards of a sequence satisfy a test
CountIn(s, test(_)) == Cardinality({i \in 1..Len(s) : test(s[i])})

\* the occurrences of codex number n across Archive, Codex, the attached
\* codex cards and the neighbourhood piles
CodexCount(g, n) ==
    LET in(pile) == IF n \in DOMAIN pile THEN 1 ELSE 0
        isn(card) == card.kind \in {"codex", "codex_neighbourhood"} /\ card.id = n
        nb_count == [nb \in Neighbourhood |->
                        CountIn(get(g, nb).attached_codex, isn)
                            + CountIn(get(g, nb).cards, isn)]
    IN  in(get(g, ARCHIVE)) + in(get(g, CODEX)) + SumOver(Neighbourhood, nb_count)

\* C6: every codex number the scenario requires occurs exactly once across
\* Archive, Codex, the attached codex cards and the neighbourhood piles.
C6_CodexUnique ==
    \A n \in Range(REQUIRED_CODEX(game.scenario)) : CodexCount(game, n) = 1

\* the event cards of EventDeck, EventDiscard, the neighbourhood piles and
\* the later event sub-piles, as a sequence
PiledEventCards(g) ==
    LET nbs == <<EASTTOWN, NORTHSIDE, RIVERTOWN, INNSMOUTH_SHORE, THRESHOLDS,
                 THE_UNDERWORLD>>
        later(nb) == IF nb \in DOMAIN g.later_event_decks
                     THEN g.later_event_decks[nb] ELSE <<>>
    IN  get(g, EVENT_DECK) \o get(g, EVENT_DISCARD)
            \o Concat([i \in 1..Len(nbs) |->
                  SelectSeq(get(g, nbs[i]).cards, is_event) \o later(nbs[i])])

\* the number of event cards across those piles and ActionRequired
EventCardCount(g) ==
    Len(PiledEventCards(g)) + Cardinality(DOMAIN get(g, ACTION_REQUIRED))

\* the event cards across those piles and ActionRequired
EventCards(g) ==
    LET ar == get(g, ACTION_REQUIRED)
    IN  Range(PiledEventCards(g)) \cup {ar[k] : k \in DOMAIN ar}

\* C7: draw, resolve_event, spread_doom, spread_clue, gate_burst and
\* add_neighbourhood leave the multiset of event cards across EventDeck,
\* EventDiscard, ActionRequired, the neighbourhood piles and the later event
\* sub-piles unchanged.
C7_EventCardsConserved ==
    [][(last'.op \in {"draw", "resolve_event", "spread_doom", "spread_clue",
                      "gate_burst", "add_deck"} /\ game' # game) =>
          /\ EventCardCount(game') = EventCardCount(game)
          /\ EventCards(game') = EventCards(game)]_vars

\* the terror cards across the Terror pile and the attached_terror piles
TerrorTotal(g) ==
    LET attached == [nb \in Neighbourhood |-> Len(get(g, nb).attached_terror)]
    IN  Len(get(g, TERROR)) + SumOver(Neighbourhood, attached)

C9_HeadlineBoundAsStated ==
    Len(get(game, HEADLINE)) <= HeadlineKeep - game.obs.headline_draws

\* C9 amended: the Headline pile holds at most 13 cards, and at most 13 less
\* the number of headline draws that returned a card as long as no undo has
\* stepped a label back.
C9_HeadlineBound ==
    /\ Len(get(game, HEADLINE)) <= HeadlineKeep
    /\ ~game.obs.undone =>
          Len(get(game, HEADLINE)) <= HeadlineKeep - game.obs.headline_draws

\* two headline draws have returned a card and no undo has run
C9_Witness ==
    /\ game.obs.headline_draws = 2
    /\ ~game.obs.undone
    /\ Len(get(game, HEADLINE)) = HeadlineKeep - 2

\* C10: the Rumor pile holds at most one card.
C10_OneRumor == Len(get(game, RUMOR)) <= 1

\* a second rumor was drawn while the first was on the Rumor pile, and the
\* pile holds the second
C10_Witness ==
    /\ last.op = "headline" /\ last.err = ""
    /\ Len(last.pre.live[RUMOR]) = 1
    /\ Len(get(game, RUMOR)) = 1
    /\ get(game, RUMOR)[1].id # last.pre.live[RUMOR][1].id

-----------------------------------------------------------------------------
(* Properties of the commands.                                             *)

\* C11: after a successful undo the game is stable: ActionRequired is
\* empty.
C11_StableAfterUndo ==
    (last.op = "undo" /\ last.err = "") => DOMAIN get(game, ACTION_REQUIRED) = {}

\* C12: the roster is a bijection between seated connections and names, and
\* no two seated connections share a colour, whatever the interleaving of
\* start_game and connect.
C12_RosterUnique ==
    /\ \A a, b \in DOMAIN players : players[a] = players[b] => a = b
    /\ \A a, b \in DOMAIN player_colours :
           player_colours[a] = player_colours[b] => a = b

\* the step in which connection c's connect command is handled
ConnectStep(c) ==
    /\ task[c].pc = "idle"
    /\ task'[c].pc = "idle"
    /\ task'[c].cmd = "connect"
    /\ fuel' = fuel - 1

NameTaken(name) == \E d \in DOMAIN players : players[d] = name
ColourTaken(colour) == \E d \in DOMAIN player_colours : player_colours[d] = colour
ErrorReplies ==
    {"The game has not been started yet.", "That name has already been chosen.",
     "That color has already been chosen.", "Bad connection message"}

\* C13: a connect from an unseated connection seats the sender exactly when
\* a game exists and neither the name nor the colour is taken; otherwise the
\* sender gets an error reply ("That name has already been chosen." when a
\* game exists and the name is taken) and the roster is unchanged.
C13_ConnectSeats ==
    [][\A c \in SessionConns :
          (ConnectStep(c) /\ c \notin DOMAIN players) =>
              IF /\ has_game
                 /\ ~NameTaken(task'[c].name)
                 /\ ~ColourTaken(task'[c].colour)
              THEN /\ c \in DOMAIN players'
                   /\ players'[c] = task'[c].name
                   /\ player_colours'[c] = task'[c].colour
              ELSE /\ task'[c].reply \in ErrorReplies
                   /\ (has_game /\ NameTaken(task'[c].name)) =>
                          task'[c].reply = "That name has already been chosen."
                   /\ players' = players
                   /\ player_colours' = player_colours]_vars

\* the step in which connection c's start_game returns without an error
StartGameCompletes(c) ==
    /\ task[c].pc = "sg_log"
    /\ task'[c].pc = "idle"
    /\ task'[c].cmd = "start_game done"

\* C14: when a start_game completes, every player seated before it has been
\* sent boot and the roster, players and colours, holds exactly the sender,
\* whatever the other connections did at the handler's suspension points.
C14_StartGameResets ==
    [][\A c \in SessionConns :
          StartGameCompletes(c) =>
              /\ task[c].before \subseteq task[c].booted
              /\ DOMAIN players' = {c}
              /\ DOMAIN player_colours' = {c}]_vars

\* connection c's unregister has ended
Gone(c) == task[c].pc = "closed" /\ task[c].cmd \in {"unregister done", "unregister raised"}

\* nothing of a game is left: no game, no logs, nobody seated
TornDown ==
    /\ ~has_game
    /\ game_logs = <<>>
    /\ DOMAIN players = {}
    /\ DOMAIN player_colours = {}

C16_UpdateAfterWrite ==
    last.op \notin {"", "start_game"} => last.out.update

ViewCommands ==
    {"view_discard", "view_codex", "view_archive", "view_attached_codex", "view_rumor"}

\* the step in which a read command is handled
ViewStep == last'.op \in ViewCommands /\ fuel' = fuel - 1

\* C17: a read command answers its sender alone, with no log entry and no
\* update, and leaves every pile, every label timeline, every player
\* change-log, the roster and the logs as they were.
C17_ViewsReadOnly ==
    [][ViewStep =>
          /\ game' = game
          /\ players' = players
          /\ player_colours' = player_colours
          /\ game_logs' = game_logs
          /\ last'.out.reply \in {"viewer_reply", "viewer_reply_empty", "error"}
          /\ ~last'.out.log
          /\ ~last'.out.update]_vars

\* a rumor was read after a headline put it into play, and a discard pile
\* with a card in it was read
C17_Witness ==
    /\ last.op = "view_rumor"
    /\ last.out.reply = "viewer_reply"
    /\ last.prev.op \in {"headline", "view_discard"}
    /\ Len(get(game, RUMOR)) = 1

\* the four EmptyDeckError cases that are not errors to the sender
NonFatal(op, err) ==
    err = "EmptyDeckError" /\ op \in {"spread_doom", "spread_clue", "gate_burst", "headline"}

\* C18: an error of a game-state operation, other than the four non-fatal
\* cases of EmptyDeckError, is answered with an error reply to the sender
\* alone: no log entry, no update.
C18_ErrorsAnswered ==
    (last.err # "" /\ ~NonFatal(last.op, last.err)) => last.out = Out("error", FALSE, FALSE)

\* C19: an EmptyDeckError of spread_doom, spread_clue, gate_burst or headline
\* is answered with a viewer_reply of no cards to the sender, and a log entry
\* goes to the seated players.
C19_EmptyDeckNonFatal ==
    NonFatal(last.op, last.err) => (last.out.reply = "viewer_reply_empty" /\ last.out.log)

Spreads == {"spread_doom", "spread_clue"}

\* two sequences hold the same cards, each as many times
SameCards(s, t) ==
    \A card \in Range(s) \cup Range(t) :
        Cardinality({i \in 1..Len(s) : s[i] = card})
            = Cardinality({i \in 1..Len(t) : t[i] = card})

\* the last command was a spread that found the event deck empty and the
\* discard pile not
Reshuffled ==
    /\ last.op \in Spreads
    /\ last.err = "EmptyDeckError"
    /\ Len(last.pre.live[EVENT_DECK]) = 0
    /\ Len(last.pre.live[EVENT_DISCARD]) > 0

\* the last command was a spread that came right after such a spread
AfterReshuffle ==
    /\ last.op \in Spreads
    /\ last.prev.op \in Spreads
    /\ last.prev.err = "EmptyDeckError"
    /\ Len(last.pre.live[EVENT_DECK]) > 0

\* C20: a spread_doom or spread_clue that finds the event deck empty and the
\* discard pile not leaves the former discard cards, and only them, in the
\* event deck and the discard pile empty when it raises EmptyDeckError; and
\* the spread_doom or spread_clue right after it succeeds.
C20_ReshuffleThenSucceed ==
    /\ Reshuffled =>
          /\ get(game, EVENT_DISCARD) = <<>>
          /\ SameCards(get(game, EVENT_DECK), last.pre.live[EVENT_DISCARD])
    /\ AfterReshuffle => last.err = ""

\* a spread succeeded right after the spread that reshuffled the discard
\* pile into the empty event deck
C20_Witness ==
    /\ AfterReshuffle
    /\ last.err = ""
    /\ Len(last.pre.live[EVENT_DECK]) = 2
    /\ Len(last.pre.live[EVENT_DISCARD]) = 0

-----------------------------------------------------------------------------
(* The steps of one write.  GameState.draw_from_neighbourhood checkpoints   *)
(* the pile, mutates it and records the change without an await; the      *)
(* handler then awaits the reply, the log and the update.                  *)

\* a task that is between the first and the last step of a game operation
MidOperation == {"op_checkpointed", "op_mutated"}

\* an event loop that hands over between any two statements
LoopPreemptive(c) == TRUE

\* the event loop: a task runs on until it awaits, so no other task takes
\* a step while one is inside GameState.draw_from_neighbourhood
LoopFree(c) == \A d \in Conns \ {c} : task[d].pc \notin MidOperation

\* the labels the running operation has checkpointed
Checkpointed(g) == {l \in Label : g.obs.stamp[l][g.idx[l]] = g.obs.opid}

\* draw_from_neighbourhood of an encounter card: self.decks.add(neighbourhood)
DrawCheckpoint(c) ==
    \E nb \in Range(game.neighbourhoods) :
        /\ fuel > 0
        /\ LoopFree(c)
        /\ task[c].pc = "idle"
        /\ get(game, nb).present
        /\ Len(get(game, nb).cards) > 0
        /\ DrawCard(get(game, nb).cards, TRUE).kind = "encounter"
        /\ game' = add(Begin(game, c), {nb})
        /\ task' = [task EXCEPT ![c].pc = "op_checkpointed", ![c].cmd = "draw"]
        /\ fuel' = fuel - 1
        /\ UNCHANGED <<connected_clients, players, player_colours, has_game, game_logs, last>>

\* card = self.nb_deck(neighbourhood).draw(); self.nb_deck(neighbourhood).bottom(card)
DrawMutate(c) ==
    /\ LoopFree(c)
    /\ task[c].pc = "op_checkpointed"
    /\ \E nb \in Checkpointed(game) :
          LET deck == get(game, nb)
          IN  game' = put(game, nb,
                          [deck EXCEPT !.cards = bottom(DrawRest(deck.cards, TRUE),
                                                        DrawCard(deck.cards, TRUE))])
    /\ task' = [task EXCEPT ![c].pc = "op_mutated"]
    /\ UNCHANGED <<connected_clients, players, player_colours, has_game, game_logs, fuel, last>>

\* self.player_histories.record_change(sender, changes), and the handler up
\* to await sender.send(message)
DrawRecord(c) ==
    /\ LoopFree(c)
    /\ task[c].pc = "op_mutated"
    /\ game' = record_change(game, c, Checkpointed(game))
    /\ task' = [task EXCEPT ![c].pc = "op_reply", ![c].reply = "viewer_reply"]
    /\ UNCHANGED <<connected_clients, players, player_colours, has_game, game_logs, fuel, last>>

\* the handler from the reply sent to the await in self.send_log
DrawLog(c) ==
    /\ LoopFree(c)
    /\ task[c].pc = "op_reply"
    /\ game_logs' = <<LogEntry(c, "draw")>> \o game_logs
    /\ task' = [task EXCEPT ![c].pc = "op_log"]
    /\ UNCHANGED <<game, connected_clients, players, player_colours, has_game, fuel, last>>

\* MessageHandler.update: the payloads are made from self.game as it is now,
\* before the await of the sends
DrawUpdate(c) ==
    /\ LoopFree(c)
    /\ task[c].pc = "op_log"
    /\ last' = [op |-> "update", who |-> c, err |-> "", pre |-> Snapshot(game),
                out |-> Out("viewer_reply", TRUE, TRUE),
                prev |-> [op |-> last.op, who |-> last.who, err |-> last.err]]
    /\ task' = [task EXCEPT ![c].pc = "idle", ![c].cmd = "draw done"]
    /\ UNCHANGED <<game, connected_clients, players, player_colours, has_game, game_logs, fuel>>

NextWrites ==
    \/ \E c \in connected_clients : DrawCheckpoint(c)
    \/ \E c \in connected_clients : DrawMutate(c)
    \/ \E c \in connected_clients : DrawRecord(c)
    \/ \E c \in connected_clients : DrawLog(c)
    \/ \E c \in connected_clients : DrawUpdate(c)

SpecWrites == InitEvents /\ [][NextWrites]_vars

-----------------------------------------------------------------------------
(* The handler loop of server.py.  The roster code of                      *)
(* SecureWebSocketServer (register, start_game, send_log, unregister) is   *)
(* that of MessageHandler line by line; its loop is not.                   *)

\* the start_game of connection c is at a statement that raises: the seat of
\* a name another connection holds, or send_log for a sender that is seated
\* no more
RaisesNow(c) ==
    \/ /\ task[c].pc = "sg_update"
       /\ \E d \in DOMAIN players \ {c} : players[d] = task[c].name
    \/ /\ task[c].pc = "sg_hello"
       /\ ~(c \in DOMAIN players /\ c \in DOMAIN player_colours)

\* SecureWebSocketServer.handler: 'except Exception: raise' hands the
\* exception on, past 'except ConnectionClosedError', to the finally, which
\* runs unregister; the sender is not seated at either raising statement
ServerRaises(c) ==
    /\ RaisesNow(c)
    /\ connected_clients' = connected_clients \ {c}
    /\ Teardown(connected_clients \ {c}, game_logs)
    /\ task' = [task EXCEPT ![c] = [Leaving(c, connected_clients \ {c},
                                            connected_clients \ {c} = {})
                                    EXCEPT !.before = {}]]
    /\ UNCHANGED <<game, players, player_colours, fuel, last>>

NextServer ==
    \/ Registers
    \/ StartGames
    \/ StartGameClears
    \/ \E c \in SessionConns : ~RaisesNow(c) /\ StartGameSeat(c)
    \/ \E c \in SessionConns : ~RaisesNow(c) /\ StartGameLog(c)
    \/ StartGameDones
    \/ Closes
    \/ Unseats
    \/ Unregistereds
    \/ \E c \in SessionConns : ServerRaises(c)

SpecServer == InitSession /\ [][NextServer]_vars

-----------------------------------------------------------------------------
(* The terror commands, the refused ones included.                         *)

\* MessageHandler.spread_terror
SpreadTerrorCommand ==
    \E sender \in connected_clients :
        Walked("spread_terror", sender, spread_terror(Begin(game, sender), sender))

\* MessageHandler.place_terror
PlaceTerrorCommand ==
    \E sender \in connected_clients, nb \in Range(game.neighbourhoods) :
        Walked("place_terror", sender, place_terror(Begin(game, sender), nb, sender))

NextTerror ==
    \/ SpreadTerrorCommand
    \/ PlaceTerrorCommand
    \/ SpreadDoom

SpecTerror == Init /\ [][NextTerror]_vars

-----------------------------------------------------------------------------
(* The codex commands with the number they name, the refused ones          *)
(* included.                                                               *)

\* the effect of a codex handler that was sent the number index
Numbered(op, sender, index, r) ==
    /\ fuel > 0
    /\ game' = r.g
    /\ fuel' = fuel - 1
    /\ last' = [op |-> op, who |-> sender, err |-> r.err, pre |-> Snapshot(game),
                out |-> Outcome(op, sender, r.err),
                prev |-> [op |-> last.op, who |-> last.who, err |-> last.err],
                index |-> index]
    /\ game_logs' = IF Outcome(op, sender, r.err).log
                    THEN <<LogEntry(sender, op)>> \o game_logs
                    ELSE game_logs
    /\ UNCHANGED <<connected_clients, players, player_colours, has_game, task>>

\* MessageHandler.add_codex: card = self.game.archive[index] raises KeyError
\* for a number that is not in the archive, before the game is called
AddCodexCommand ==
    \E sender \in connected_clients, index \in Range(REQUIRED_CODEX(game.scenario)) :
        \E pi \in IF index \in CODEX_SHUFFLE_ENCOUNTERS THEN TopThreeShuffles ELSE {<<1, 2, 3>>} :
            IF index \notin DOMAIN get(game, ARCHIVE)
            THEN Numbered("add_codex", sender, index,
                          Result(Begin(game, sender), "KeyError", NoCard))
            ELSE Numbered("add_codex", sender, index,
                          add_from_archive(Begin(game, sender), index, sender, pi))

\* MessageHandler.remove_codex
RemoveCodexCommand ==
    \E sender \in connected_clients, index \in Range(REQUIRED_CODEX(game.scenario)) :
        Numbered("remove_codex", sender, index,
                 return_to_archive(Begin(game, sender), index, sender))

NextCodex ==
    \/ AddCodexCommand
    \/ RemoveCodexCommand
    \/ FlipCodex
    \/ AddCounterCodex
    \/ Draw

SpecCodex == Init /\ [][NextCodex]_vars

-----------------------------------------------------------------------------
(* The draw command with what it returns.                                  *)

\* the ticket draw_from_neighbourhood returns: temp_uuid = str(uuid.uuid4())
\* is made before the card is looked at and returned whatever the card is
draw_ticket(g) == g.uuid

\* MessageHandler.draw, with the neighbourhood asked for, the card and the
\* ticket of the reply
DrawCommand ==
    \E sender \in connected_clients, nb \in Range(game.neighbourhoods) :
        LET r == draw_from_neighbourhood(Begin(game, sender), nb, sender)
        IN  /\ fuel > 0
            /\ game' = r.g
            /\ fuel' = fuel - 1
            /\ last' = [op |-> "draw", who |-> sender, err |-> r.err,
                        pre |-> Snapshot(game), out |-> Outcome("draw", sender, r.err),
                        prev |-> [op |-> last.op, who |-> last.who, err |-> last.err],
                        deck |-> nb, card |-> r.card,
                        ticket |-> IF r.err = "" THEN draw_ticket(game) ELSE NoTicket]
            /\ game_logs' = IF Outcome("draw", sender, r.err).log
                            THEN <<LogEntry(sender, "draw")>> \o game_logs
                            ELSE game_logs
            /\ UNCHANGED <<connected_clients, players, player_colours, has_game, task>>

\* MessageHandler.resolve_event, with the ticket and the verdict sent and
\* the card resolved
ResolveCommand ==
    \E sender \in connected_clients, passed \in BOOLEAN,
       identifier \in DOMAIN get(game, ACTION_REQUIRED) \cup {NoTicket} :
        \E pi \in IF passed \/ identifier = NoTicket THEN {<<1, 2, 3>>} ELSE TopThreeShuffles :
            LET r == resolve_temporary_zone(Begin(game, sender), identifier, passed, sender, pi)
            IN  /\ fuel > 0
                /\ game' = r.g
                /\ fuel' = fuel - 1
                /\ last' = [op |-> "resolve_event", who |-> sender, err |-> r.err,
                            pre |-> Snapshot(game),
                            out |-> Outcome("resolve_event", sender, r.err),
                            prev |-> [op |-> last.op, who |-> last.who, err |-> last.err],
                            ticket |-> identifier, passed |-> passed, card |-> r.card]
                /\ game_logs' = IF Outcome("resolve_event", sender, r.err).log
                                THEN <<LogEntry(sender, "resolve_event")>> \o game_logs
                                ELSE game_logs
                /\ UNCHANGED <<connected_clients, players, player_colours, has_game, task>>

NextDraw ==
    \/ DrawCommand
    \/ ResolveCommand
    \/ AddCodex
    \/ SpreadClue

SpecDraw == Init /\ [][NextDraw]_vars

-----------------------------------------------------------------------------
(* shuffle_into_top_three on piles of every small size.                    *)

MaxPile == 4

\* the encounter cards the piles are made of
ShuffleCards == {NeighbourhoodCard(n, NORTHSIDE, FALSE) : n \in 1..MaxPile}

\* the piles of fewer than MaxPile cards, no card twice
ShufflePiles ==
    {s \in UNION {[1..k -> ShuffleCards] : k \in 0..(MaxPile - 1)} :
        \A i, k \in DOMAIN s : s[i] = s[k] => i = k}

\* a game whose Northside pile is any of the piles
InitShuffle ==
    /\ Seated(1..TwoConns)
    /\ fuel = 0
    /\ \E pile \in ShufflePiles :
          game = put(SessionGame, NORTHSIDE,
                     [get(SessionGame, NORTHSIDE) EXCEPT !.cards = pile])
    /\ last = [op |-> "", who |-> 0, err |-> "", pre |-> Snapshot(SessionGame),
               out |-> NoOut,
               prev |-> [op |-> "", who |-> 0, err |-> ""]]

\* self.nb_deck(neighbourhood).shuffle_into_top_three(card) with a card that
\* is not in the pile
ShuffleIntoTopThree ==
    \E card \in ShuffleCards \ Range(get(game, NORTHSIDE).cards), pi \in TopThreeShuffles :
        LET r == nb_shuffle_into_top_three(game, NORTHSIDE, card, pi)
        IN  /\ game' = r.g
            /\ last' = [op |-> "shuffle_into_top_three", who |-> 0, err |-> r.err,
                        pre |-> Snapshot(game), out |-> NoOut,
                        prev |-> [op |-> last.op, who |-> last.who, err |-> last.err],
                        card |-> card]
            /\ UNCHANGED <<connected_clients, players, player_colours, has_game,
                           game_logs, task, fuel>>

SpecShuffle == InitShuffle /\ [][ShuffleIntoTopThree]_vars

-----------------------------------------------------------------------------
(* The dispatch of an inbound message.                                     *)

\* an inbound text: whether it parses as JSON, whether the parsed value is
\* an object, whether the object has an "action" key, and the value of it
Message(valid, object, keyed, action) ==
    [valid |-> valid, object |-> object, keyed |-> keyed, action |-> action]

MessageInputs ==
    {Message(FALSE, FALSE, FALSE, ""), Message(TRUE, FALSE, FALSE, ""),
     Message(TRUE, TRUE, FALSE, ""), Message(TRUE, TRUE, TRUE, "shuffle"),
     Message(TRUE, TRUE, TRUE, "draw"), Message(TRUE, TRUE, TRUE, "spread_doom")}

\* the values of Commands that the messages above name
Commands == {"draw", "spread_doom"}

\* MessageHandler.handle_message up to the call of the command: the reply
\* and the exception that leaves it ("" when the command is called).
\* json.loads raises ValueError, answered at once; json_message["action"]
\* raises TypeError on a value that is not an object and KeyError on an
\* object without the key; Commands(...) raises ValueError
handle_message(message) ==
    IF ~message.valid THEN [err |-> "ValueError", out |-> Out("error", FALSE, FALSE)]
    ELSE LET err == IF ~message.object THEN "TypeError"
                    ELSE IF ~message.keyed THEN "KeyError"
                    ELSE IF message.action \notin Commands THEN "ValueError"
                    ELSE ""
         IN  [err |-> err, out |-> Dispatcher(err)]

\* a message arrives on an open connection
Inbound ==
    \E sender \in connected_clients, message \in MessageInputs :
        LET taken == handle_message(message)
        IN  IF taken.err = ""
            THEN IF message.action = "draw" THEN draw(sender)
                 ELSE spread_doom_handler(sender)
            ELSE /\ fuel > 0
                 /\ fuel' = fuel - 1
                 /\ last' = [op |-> "handle_message", who |-> sender, err |-> taken.err,
                             pre |-> Snapshot(game), out |-> taken.out,
                             prev |-> [op |-> last.op, who |-> last.who, err |-> last.err]]
                 /\ UNCHANGED <<game, connected_clients, players, player_colours,
                                has_game, game_logs, task>>

NextInbound ==
    \/ Inbound
    \/ SpreadClue
    \/ Undo

SpecInbound == Init /\ [][NextInbound]_vars

-----------------------------------------------------------------------------
(* The settings of start_game.                                             *)

\* mappings.SCENARIO_BY_EXPANSION: the scenarios of the base game have no
\* entry
SCENARIO_BY_EXPANSION ==
    (TYRANTS_OF_RUIN :> UNDER_DARK_WAVES) @@ (THE_KEY_AND_THE_GATE :> SECRETS_OF_THE_ORDER)

MaxMask == 7

\* the settings the connections send: every modelled scenario with masks
\* that hold its bit, lack it, are zero, or are out of range
SettingsSent ==
    {<<ECHOES_OF_THE_DEEP, 0>>, <<ECHOES_OF_THE_DEEP, 7>>,
     <<TYRANTS_OF_RUIN, 0>>, <<TYRANTS_OF_RUIN, 2>>, <<TYRANTS_OF_RUIN, 5>>,
     <<THE_KEY_AND_THE_GATE, 3>>, <<THE_KEY_AND_THE_GATE, 6>>,
     <<THE_KEY_AND_THE_GATE, MaxMask + 1>>}

\* GameSettings(scenario, expansions): the field constraint ge=0, le=7, then
\* validate_item_type_for_level.  pydantic turns the ValueError of a
\* validator into a ValidationError, which is a ValueError; the KeyError of
\* the dictionary lookup is not one and leaves the constructor as it is
GameSettings(scenario, expansions) ==
    IF expansions \notin 0..MaxMask THEN "ValueError"
    ELSE IF scenario \notin DOMAIN SCENARIO_BY_EXPANSION THEN "KeyError"
    ELSE IF ~HasBit(expansions, SCENARIO_BY_EXPANSION[scenario]) THEN "ValueError"
    ELSE ""

\* MessageHandler.start_game from the message to its first suspension, the
\* construction of the settings included: 'except ValueError' answers with
\* an error before anything is assigned; an exception of another class
\* leaves start_game and handle_message unanswered
start_game(c) ==
    \E settings \in SettingsSent, name \in NameInputs, colour \in ColourInputs :
        LET err == GameSettings(settings[1], settings[2])
            sent == [op |-> "start_game", who |-> c, err |-> err, pre |-> last.pre,
                     out |-> IF err = "" THEN Out("update", TRUE, TRUE) ELSE Dispatcher(err),
                     prev |-> [op |-> "", who |-> 0, err |-> ""],
                     settings |-> settings]
        IN  /\ fuel > 0
            /\ Ready(c)
            /\ fuel' = fuel - 1
            /\ last' = sent
            /\ IF err = ""
               THEN Starting(c, GameState(settings[1], settings[2], FALSE), name, colour)
               ELSE UNCHANGED <<game, connected_clients, players, player_colours,
                                has_game, game_logs, task>>

NextSettings ==
    \/ Registers
    \/ \E c \in SessionConns : start_game(c)
    \/ StartGameClears
    \/ StartGameSeats
    \/ StartGameLogs
    \/ StartGameDones
    \/ Closes
    \/ Unseats
    \/ Unregistereds

SpecSettings == InitSession /\ [][NextSettings]_vars

-----------------------------------------------------------------------------
(* The broadcasts.  A socket whose task is closed fails every send.        *)

\* a gather that raises the first exception of a send
GatherStrict(recipients, failing) ==
    [sent |-> recipients, raised |-> recipients \cap failing # {}]

\* asyncio.gather(*(ws.send(message) for ws in recipients),
\* return_exceptions=True): every send is started, and an exception of a
\* send is a value of the result list
Gather(recipients, failing) == [sent |-> recipients, raised |-> FALSE]

Broken == {d \in Conns : task[d].pc = "closed"}

\* a handler of connection c calls a broadcast helper for the recipients
Broadcasts(c, kind, recipients) ==
    LET r == Gather(recipients, Broken)
    IN  /\ task[c].pc = "idle"
        /\ task' = [task EXCEPT ![c] = Task("idle", kind, 0, 0,
                                            IF r.raised THEN "raised" ELSE "returned",
                                            recipients, r.sent, FALSE)]
        /\ UNCHANGED <<game, connected_clients, players, player_colours, has_game,
                       game_logs, fuel, last>>

\* MessageHandler.broadcast, called by send_hellos
BroadcastHello == \E c \in connected_clients : Broadcasts(c, "hello", connected_clients)

\* MessageHandler.broadcast_players, called by start_game and by send_log
BroadcastBoot == \E c \in connected_clients : Broadcasts(c, "boot", DOMAIN players)
BroadcastLog == \E c \in connected_clients : Broadcasts(c, "log", DOMAIN players)

\* MessageHandler.update
BroadcastUpdate == \E c \in connected_clients : Broadcasts(c, "update", DOMAIN players)

\* any set of open connections, any roster, any set of failed sockets
InitBroadcast ==
    /\ \E open \in SUBSET Conns, seated \in SUBSET Conns, failed \in SUBSET Conns :
          /\ connected_clients = open
          /\ players = [c \in seated |-> c]
          /\ player_colours = [c \in seated |-> c]
          /\ task = [c \in Conns |-> IF c \in failed THEN Closed ELSE Idle]
    /\ has_game = TRUE
    /\ game_logs = <<>>
    /\ fuel = 0
    /\ game = SessionGame
    /\ last = [op |-> "", who |-> 0, err |-> "", pre |-> Snapshot(SessionGame),
               out |-> NoOut,
               prev |-> [op |-> "", who |-> 0, err |-> ""]]

NextBroadcast == BroadcastHello \/ BroadcastBoot \/ BroadcastLog \/ BroadcastUpdate

SpecBroadcast == InitBroadcast /\ [][NextBroadcast]_vars

-----------------------------------------------------------------------------
(* Properties of the connection handlers.                                  *)

SessionCommands == {"start_game", "connect", "unregister"}

\* the step in which a command of connection c, or its unregister, begins
Starts(c) ==
    /\ fuel' = fuel - 1
    /\ c \in connected_clients
    /\ task'[c].cmd \in SessionCommands
    /\ [task'[c] EXCEPT !.was_last = FALSE] # [task[c] EXCEPT !.was_last = FALSE]

\* C21: the commands of one connection are handled one after the other: a
\* command begins only when the connection's command before it has ended,
\* its write, its reply and its broadcasts dispatched.
C21_Sequential ==
    [][\A c \in SessionConns : Starts(c) => task[c].pc = "idle"]_vars

\* a connection has sent connect after its start_game ran to the end
C21_Witness ==
    \E c \in SessionConns :
        /\ task[c].cmd = "connect"
        /\ c \in DOMAIN players
        /\ game_logs # <<>>

BroadcastKinds == {"hello", "boot", "log", "update"}

C24_ExceptionKeepsConnection ==
    [][\A c \in SessionConns :
          (RaisesNow(c) /\ task'[c] # task[c]) =>
              /\ c \in connected_clients'
              /\ c \in DOMAIN players => c \in DOMAIN players'
              /\ task'[c].pc = "idle"]_vars

\* a start_game message of connection c is taken in this step
Validates(c) ==
    /\ last' # last
    /\ last'.op = "start_game"
    /\ last'.who = c

HistoryCommands == {"", "start_game", "undo", "redo", "update"}

\* C26: right after a command that changed a pile and raised nothing, no
\* seated player has a change-set to redo, whoever sent the command.
C26_WriteClearsRedo ==
    (last.op \notin HistoryCommands /\ last.err = "") =>
        \A q \in DOMAIN players : ~can_redo(game, q)

\* a write of one player right after the undo of another, who had the
\* undone change-set to redo
C26_Witness ==
    /\ last.op \notin HistoryCommands
    /\ last.err = ""
    /\ last.prev.op = "undo"
    /\ last.prev.err = ""
    /\ last.prev.who # last.who
    /\ last.prev.who \in DOMAIN players

C28_MalformedAnswered ==
    [][last'.op = "handle_message" =>
          /\ last'.out = Out("error", FALSE, FALSE)
          /\ UNCHANGED <<game, players, player_colours, has_game, game_logs>>]_vars

\* the labels a step checkpoints: their current index moved
CheckpointedIn(g, h) == {l \in Label : h.idx[l] # g.idx[l]}

\* the labels whose pile a step changes
ChangedIn(g, h) == {l \in Label : get(h, l) # get(g, l)}

\* the change-set a step records for connection p, {} when it records none
RecordedIn(g, h, p) == IF h.j[p] > g.j[p] THEN h.C[p][h.j[p]] ELSE {}

\* C29: a command on the game checkpoints, changes and records the same set
\* of labels, each label checkpointed once.
C29_SameLabelSet ==
    [][\A p \in Conns :
          (last'.op \in MutatingOps /\ last'.who = p /\ game' # game) =>
              /\ CheckpointedIn(game, game') = ChangedIn(game, game')
              /\ RecordedIn(game, game', p) = ChangedIn(game, game')
              /\ \A l \in CheckpointedIn(game, game') : game'.idx[l] = game.idx[l] + 1]_vars

Largest(a, b) == IF a >= b THEN a ELSE b

\* C30: shuffle_into_top_three(card) on a pile of n cards, n >= 0, gives a
\* pile of n + 1 cards; the bottom max(0, n - 2) cards are where they were,
\* and the cards above them are the former top cards and the new card.
C30_ShuffleKeepsCards ==
    [][last'.op = "shuffle_into_top_three" =>
          LET old == get(game, NORTHSIDE).cards
              new == get(game', NORTHSIDE).cards
              n == Len(old)
              kept == Largest(0, n - 2)
          IN  /\ Len(new) = n + 1
              /\ SubSeq(new, 1, kept) = SubSeq(old, 1, kept)
              /\ Range(SubSeq(new, kept + 1, Len(new)))
                    = Range(SubSeq(old, kept + 1, n)) \cup {last'.card}]_vars

\* C31: a draw takes the top card of the neighbourhood; a codex card of a
\* neighbourhood goes to the archive face up, an event card goes to
\* ActionRequired under a ticket that was not in use, any other card goes
\* to the bottom of the pile; the ticket returned is that of the event card
\* and none for any other card.
C31_DrawRoutes ==
    [][(last'.op = "draw" /\ last'.err = "") =>
          LET nb == last'.deck
              old == get(game, nb).cards
              new == get(game', nb).cards
              card == old[Len(old)]
              rest == SubSeq(old, 1, Len(old) - 1)
          IN  /\ card.kind = "codex_neighbourhood" =>
                    /\ new = rest
                    /\ card.id \in DOMAIN get(game', ARCHIVE)
                    /\ get(game', ARCHIVE)[card.id] = [card EXCEPT !.is_flipped = FALSE]
                    /\ last'.ticket = NoTicket
              /\ is_event(card) =>
                    /\ new = rest
                    /\ last'.ticket \notin DOMAIN get(game, ACTION_REQUIRED)
                    /\ last'.ticket \in DOMAIN get(game', ACTION_REQUIRED)
                    /\ get(game', ACTION_REQUIRED)[last'.ticket] = card
              /\ (card.kind # "codex_neighbourhood" /\ ~is_event(card)) =>
                    /\ new = <<card>> \o rest
                    /\ last'.ticket = NoTicket]_vars

\* C32: resolve_event with the ticket of a drawn event card and passed=true
\* puts that card at the bottom of EventDiscard and takes the ticket out of
\* ActionRequired, the other tickets staying; resolve_event with a ticket
\* that is not in ActionRequired is answered with an error and changes no
\* pile and no history.
C32_ResolvePassed ==
    [][last'.op = "resolve_event" =>
          LET pending == get(game, ACTION_REQUIRED)
              ticket == last'.ticket
          IN  /\ (ticket \in DOMAIN pending /\ last'.passed) =>
                    /\ last'.err = ""
                    /\ get(game', EVENT_DISCARD) = <<pending[ticket]>> \o get(game, EVENT_DISCARD)
                    /\ get(game', ACTION_REQUIRED)
                          = [t \in DOMAIN pending \ {ticket} |-> pending[t]]
              /\ ticket \notin DOMAIN pending =>
                    /\ last'.out = Out("error", FALSE, FALSE)
                    /\ Snapshot(game') = Snapshot(game)
                    /\ game'.C = game.C]_vars

\* the event card of the draw before is passed: it lies at the bottom of
\* EventDiscard and ActionRequired is empty
C32_Witness ==
    /\ last.op = "resolve_event"
    /\ last.err = ""
    /\ last.passed
    /\ last.prev.op = "draw"
    /\ is_event(last.card)
    /\ get(game, EVENT_DISCARD)[1] = last.card
    /\ DOMAIN get(game, ACTION_REQUIRED) = {}

\* C33: spread_terror and place_terror are refused as not applicable exactly
\* in a scenario without terror; in a scenario with terror and a Terror pile
\* that is not empty, spread_terror moves the top Terror card onto the
\* attached_terror of the neighbourhood of the bottom EventDiscard card, or
\* of the default neighbourhood when EventDiscard is empty.
C33_TerrorSpreads ==
    [][last'.op \in {"spread_terror", "place_terror"} =>
          LET with_terror == SCENARIO_TERROR_MAP(game.scenario) # "None"
              pile == get(game, TERROR)
              discarded == get(game, EVENT_DISCARD)
              destination == IF Len(discarded) > 0 THEN discarded[1].neighbourhood
                             ELSE DEFAULT_TERROR_NEIGHBOURHOOD(game.scenario)
          IN  /\ (last'.err = "ValueError") <=> ~with_terror
              /\ (last'.op = "spread_terror" /\ with_terror /\ Len(pile) > 0) =>
                    /\ last'.err = ""
                    /\ get(game', TERROR) = SubSeq(pile, 1, Len(pile) - 1)
                    /\ get(game', destination).attached_terror
                          = Append(get(game, destination).attached_terror,
                                   pile[Len(pile)])]_vars

\* C34: add_codex of an attachable codex card of a neighbourhood that has
\* no codex attached succeeds, and the card is then the attached codex of
\* the neighbourhood and not in the archive; with a codex attached already
\* the command is refused; a number that is not in the archive is refused.
C34_CodexAttaches ==
    [][last'.op = "add_codex" =>
          LET archive == get(game, ARCHIVE)
              n == last'.index
          IN  /\ n \notin DOMAIN archive =>
                    /\ last'.out.reply = "error"
                    /\ Snapshot(game') = Snapshot(game)
              /\ (n \in DOMAIN archive /\ archive[n].kind = "codex_neighbourhood"
                     /\ can_attach(archive[n])) =>
                    LET nb == archive[n].neighbourhood
                    IN  IF get(game, nb).attached_codex = <<>>
                        THEN /\ last'.err = ""
                             /\ get(game', nb).attached_codex = <<archive[n]>>
                             /\ n \notin DOMAIN get(game', ARCHIVE)
                        ELSE last'.out.reply = "error"]_vars

\* the neighbourhoods in play whose attached codex card has the number n
AttachedAt(g, n) == {nb \in Range(g.neighbourhoods) : has_codex(get(g, nb), n)}

\* C35: remove_codex of a number that is in Codex or attached to a
\* neighbourhood, whatever flips and counters it got there, takes the card
\* from where it was and leaves the archive entry of the number as it was at
\* the start of the game; a number that is in neither is refused.
C35_ReturnResets ==
    [][last'.op = "remove_codex" =>
          LET n == last'.index
              fresh == create_archive(game.scenario)[n]
          IN  /\ n \in DOMAIN get(game, CODEX) =>
                    /\ last'.err = ""
                    /\ n \notin DOMAIN get(game', CODEX)
                    /\ n \in DOMAIN get(game', ARCHIVE)
                    /\ get(game', ARCHIVE)[n] = fresh
              /\ (n \notin DOMAIN get(game, CODEX) /\ AttachedAt(game, n) # {}) =>
                    /\ last'.err = ""
                    /\ \E nb \in AttachedAt(game, n) : get(game', nb).attached_codex = <<>>
                    /\ n \in DOMAIN get(game', ARCHIVE)
                    /\ get(game', ARCHIVE)[n] = fresh
              /\ (n \notin DOMAIN get(game, CODEX) /\ AttachedAt(game, n) = {}) =>
                    /\ last'.out.reply = "error"
                    /\ Snapshot(game') = Snapshot(game)]_vars

\* a codex card that was flipped or given a counter in Codex is back in the
\* archive
C35_Witness ==
    /\ last.op = "remove_codex"
    /\ last.err = ""
    /\ last.prev.op \in {"flip_codex", "add_counter_codex"}
    /\ last.prev.err = ""
    /\ last.index \in DOMAIN get(game, ARCHIVE)
    /\ last.index \notin DOMAIN get(game, CODEX)

\* the counters of the codex cards in Codex and attached to a neighbourhood,
\* and of the rumor card
CodexCounters(g) ==
    {get(g, CODEX)[n].counters : n \in DOMAIN get(g, CODEX)}
        \cup UNION {{get(g, nb).attached_codex[i].counters :
                        i \in DOMAIN get(g, nb).attached_codex} : nb \in Neighbourhood}
        \cup {get(g, RUMOR)[i].counters : i \in DOMAIN get(g, RUMOR)}

\* C36: the counters of every codex card and of the rumor card are never
\* below 0, and a remove_counter_codex on a card with no counter leaves it
\* with none.
C36_CountersClamp ==
    /\ \A k \in CodexCounters(game) : k >= 0
    /\ (last.op = "remove_counter_codex" /\ last.err = "") =>
          \A n \in DOMAIN get(game, CODEX) \cap DOMAIN last.pre.live[CODEX] :
              /\ get(game, CODEX)[n].counters <= last.pre.live[CODEX][n].counters
              /\ last.pre.live[CODEX][n].counters = 0 => get(game, CODEX)[n].counters = 0

\* a counter was removed from a codex card that had none
C36_Witness ==
    /\ last.op = "remove_counter_codex"
    /\ last.err = ""
    /\ \E n \in DOMAIN get(game, CODEX) \cap DOMAIN last.pre.live[CODEX] :
          /\ last.pre.live[CODEX][n].counters = 0
          /\ get(game, CODEX)[n].counters = 0
          /\ game.idx[CODEX] > last.pre.idx[CODEX]

\* the neighbourhood an add_deck step brings into play
Added(nb) == game'.neighbourhoods = Append(game.neighbourhoods, nb)

\* C37: add_deck of a neighbourhood other than The Underworld installs the
\* pile held aside for it and takes it out of the later set; when the
\* neighbourhood has a later event sub-pile, EventDeck afterwards holds its
\* former cards, the cards of the sub-pile and the former EventDiscard cards,
\* those of the discard pile underneath, and EventDiscard is empty.
C37_AddNeighbourhood ==
    [][\A nb \in Neighbourhood \ {THE_UNDERWORLD} :
          (last'.op = "add_deck" /\ last'.err = "" /\ Added(nb)) =>
              LET deck == get(game, EVENT_DECK)
                  discarded == get(game, EVENT_DISCARD)
                  after == get(game', EVENT_DECK)
              IN  /\ get(game', nb) = game.later_neighbourhoods[nb]
                  /\ nb \notin DOMAIN game'.later_neighbourhoods
                  /\ nb \in DOMAIN game.later_event_decks =>
                        /\ Len(after) = Len(deck) + Len(discarded)
                                            + Len(game.later_event_decks[nb])
                        /\ Range(after) = Range(deck) \cup Range(discarded)
                                            \cup Range(game.later_event_decks[nb])
                        /\ Range(SubSeq(after, 1, Len(discarded))) = Range(discarded)
                        /\ get(game', EVENT_DISCARD) = <<>>]_vars

\* C38: add_deck of The Underworld leaves the first two cards of its later
\* event sub-pile in EventDeck and its last two cards at the bottom of
\* EventDiscard, installs the pile held aside for it and removes both of
\* its later entries.
C38_AddUnderworld ==
    [][(last'.op = "add_deck" /\ last'.err = "" /\ Added(THE_UNDERWORLD)) =>
          LET later == game.later_event_decks[THE_UNDERWORLD]
              after == get(game', EVENT_DECK)
              discarded == get(game', EVENT_DISCARD)
          IN  /\ {later[1], later[2]} \subseteq Range(after)
              /\ Len(discarded) >= 2
              /\ {discarded[1], discarded[2]}
                     = {later[Len(later)], later[Len(later) - 1]}
              /\ get(game', THE_UNDERWORLD) = game.later_neighbourhoods[THE_UNDERWORLD]
              /\ THE_UNDERWORLD \notin DOMAIN game'.later_neighbourhoods
              /\ THE_UNDERWORLD \notin DOMAIN game'.later_event_decks]_vars

\* an optional list of a message: None, or the list
None == <<>>
Listed(values) == <<values>>

\* list(self.players.values()) and list(self.player_colours.values()), as
\* the set of their entries
RosterValues(roster) == {roster[c] : c \in DOMAIN roster}

\* HelloMessage.__init__
HelloMessage(game_available, taken_names, taken_colours) ==
    [action |-> "hello", game_available |-> game_available,
     taken_names |-> taken_names, taken_colours |-> taken_colours]

\* MessageHandler.send_hellos: the message it builds and broadcasts
send_hellos ==
    IF has_game
    THEN HelloMessage(FALSE, None, None)
    ELSE HelloMessage(TRUE, Listed(RosterValues(players)),
                      Listed(RosterValues(player_colours)))

\* the steps that seat or unseat a connection
SeatedBy(c) == c \notin DOMAIN players /\ c \in DOMAIN players'
UnseatedBy(c) == task[c].pc = "un_log" /\ c \in DOMAIN players /\ c \notin DOMAIN players'

\* the steps that reach await self.send_hellos(): in register, in
\* start_game after the seat, in unregister after the unseat or at once for
\* a connection without a seat
HelloBuilt(c) ==
    \/ c \notin connected_clients /\ c \in connected_clients'
    \/ task[c].pc = "sg_update" /\ task'[c].pc = "sg_hello"
    \/ c \in connected_clients /\ c \notin connected_clients' /\ c \notin DOMAIN players
    \/ UnseatedBy(c)

\* C39: every step that seats or unseats a connection goes on to broadcast
\* a hello, and every hello says game_available exactly when a game exists
\* at that moment and, when one exists, lists the names and the colours of
\* the current roster.
C39_HelloTellsRoster ==
    [][\A c \in SessionConns :
          /\ (SeatedBy(c) \/ UnseatedBy(c)) => HelloBuilt(c)
          /\ HelloBuilt(c) =>
                /\ send_hellos'.game_available = has_game'
                /\ has_game' =>
                      /\ send_hellos'.taken_names = Listed(RosterValues(players'))
                      /\ send_hellos'.taken_colours
                             = Listed(RosterValues(player_colours'))]_vars

\* a game of Echoes of the Deep whose players spread clues and doom, undo,
\* and close their connections
NextLeave ==
    \/ SpreadClue
    \/ SpreadDoom
    \/ UndoCommand
    \/ Closes
    \/ Unseats
    \/ Unregistereds

SpecLeave == InitEvents /\ [][NextLeave]_vars

\* the non-interference rule taken over the seated players
SeatedRule(p) ==
    /\ game.j[p] >= 1
    /\ \A q \in DOMAIN players \ {p} :
          game.j[q] >= 1 => game.C[p][game.j[p]] \cap game.C[q][game.j[q]] = {}

\* C40: can_undo of a seated player looks at the change-logs of the seated
\* players only: once a player has disconnected and is unseated, that
\* player's latest change-set no longer stands in the way of an undo by a
\* player who is still seated.
C40_SeatedOnly ==
    \A p \in DOMAIN players : can_undo(game, p) <=> SeatedRule(p)

=============================================================================
